---- MODULE Spec2Model ----
(***************************************************************************)
(* Model of the crush sandbox controller (internal/security) and of the    *)
(* command block predicates of the shell package.                          *)
(*                                                                         *)
(* The sandbox part models the Go package variable `initialized`, the      *)
(* kernel state the package drives through unveil(2)/pledge(2) (the list   *)
(* of unveiled paths, the unveil lock, the pledged promise set) and, for   *)
(* every call of Init / Shutdown / IsInitialized, what the call returned   *)
(* and which primitives it invoked.  The process environment (HOME,        *)
(* GOPATH, GOCACHE, which paths cannot be unveiled, whether the kernel     *)
(* accepts the lock and the promise strings) is chosen once, at start.     *)
(***************************************************************************)
EXTENDS Integers, Sequences, FiniteSets, TLC

VARIABLES
    goos,          \* runtime.GOOS: selects security_openbsd.go or security_stub.go
    env,           \* the set of deviations of the process environment
    initialized,   \* security_openbsd.go: var initialized
    unveiled,      \* kernel: the set of grants accepted by unveil(2)
    sealed,        \* kernel: unveil(NULL, NULL) has been accepted
    pledged,       \* kernel: pledge(2) has been accepted at least once
    promises,      \* kernel: the promise set in force when pledged
    lastOp,        \* the last call made: "Init", "Shutdown", "IsInitialized"
    lastArgs,      \* [dataDir, workingDir] of the last Init call that ran setupUnveil
    lastErr,       \* the error it returned ("" is nil)
    lastRet,       \* the value the last IsInitialized call returned
    lastCalls,     \* the primitives the last call invoked, in order
    nInitOk,       \* number of Init calls that returned nil
    nShutdown,     \* number of Shutdown calls made after a successful Init
    blk,           \* a pure function of the shell package, its input and its result
    coreUtilsEnv,  \* the value of CRUSH_CORE_UTILS at program start ("" is unset)
    useGoCoreUtils, \* shell package: var useGoCoreUtils
    shells,        \* the sessions: [cwd, env, blockFuncs] of each Shell
    last,          \* the last call made on a session and what it returned
    envArray,      \* per session, the array its env slice points into
    thr,           \* the goroutines calling into the sessions, and where they are
    mu,            \* per session, the goroutine holding Shell.mu (0: unlocked)
    callers,       \* the goroutines calling into package security, and where they are
    secMu          \* the goroutine holding the mutex of package security (0: unlocked)

vars == <<goos, env, initialized, unveiled, sealed, pledged, promises,
          lastOp, lastArgs, lastErr, lastRet, lastCalls, nInitOk, nShutdown, blk,
          coreUtilsEnv, useGoCoreUtils, shells, last, envArray, thr, mu,
          callers, secMu>>

concVars == <<envArray, thr, mu, callers, secMu>>

shellVars == <<coreUtilsEnv, useGoCoreUtils, shells, last, concVars>>

sandboxVars == <<goos, env, initialized, unveiled, sealed, pledged, promises,
                 lastOp, lastArgs, lastErr, lastRet, lastCalls, nInitOk, nShutdown>>

(***************************************************************************)
(* Bounds.                                                                 *)
(***************************************************************************)
MaxFaults == 1       \* deviations of the environment present at once
MaxInitOk == 2       \* successful Init calls counted
MaxShutdown == 2     \* Shutdown calls after a successful Init counted
MaxParts == 4        \* tokens of a command line given to a block predicate

(***************************************************************************)
(* Paths.  A path is [abs, parts]: the Go string "" is the relative path   *)
(* with no component, "." is the relative path <<".">>.                    *)
(***************************************************************************)
Root(parts) == [abs |-> TRUE, parts |-> parts]
Rel(parts) == [abs |-> FALSE, parts |-> parts]
EmptyStr == Rel(<<>>)

RECURSIVE DropDots(_)
DropDots(s) ==
    IF s = <<>> THEN <<>>
    ELSE IF Head(s) = "." THEN DropDots(Tail(s))
    ELSE <<Head(s)>> \o DropDots(Tail(s))

\* filepath.Clean on the paths used here (no ".." component)
Clean(p) == [abs |-> p.abs, parts |-> DropDots(p.parts)]

\* filepath.Join(p, elems...)
Join(p, elems) == Clean([abs |-> p.abs, parts |-> p.parts \o elems])

IsPrefix(s, t) == Len(s) <= Len(t) /\ SubSeq(t, 1, Len(s)) = s

\* the process: its working directory, home, uid-specific temp directory
Cwd == Root(<<"home", "u", "proj">>)
HomeDir == Root(<<"home", "u">>)
TempDir == Root(<<"tmp">>)
UidTmpName == "crush-1000"
GoPathDir == Root(<<"home", "u", "go">>)
GoCacheDir == Root(<<"home", "u", ".cache", "go-build">>)
SshConfig == Root(<<"home", "u", ".ssh", "config">>)

(***************************************************************************)
(* The environment: a set of deviations from the ordinary one (HOME,       *)
(* GOPATH and GOCACHE set, every path unveilable, every primitive          *)
(* accepted).                                                              *)
(***************************************************************************)
Dev(kind) == [kind |-> kind, path |-> EmptyStr]
NoUnveil(p) == [kind |-> "unveil", path |-> p]

HomeUnset == Dev("HOME unset") \in env
GetwdFails == Dev("getwd fails") \in env
MkdirFails == Dev("mkdir fails") \in env
SealFails == Dev("unveil lock fails") \in env
Getenv(name) ==
    CASE name = "GOPATH" -> IF Dev("GOPATH unset") \in env THEN EmptyStr ELSE GoPathDir
      [] name = "GOCACHE" -> IF Dev("GOCACHE unset") \in env THEN EmptyStr ELSE GoCacheDir
      [] OTHER -> EmptyStr

\* filepath.Abs: [path, err]
Abs(p) ==
    IF p.abs THEN [path |-> Clean(p), err |-> FALSE]
    ELSE IF GetwdFails THEN [path |-> EmptyStr, err |-> TRUE]
    ELSE [path |-> Join(Cwd, p.parts), err |-> FALSE]

(***************************************************************************)
(* Promise strings, as their space-separated tokens.                       *)
(***************************************************************************)
allPromises == <<"stdio", "rpath", "wpath", "cpath", "dpath", "flock", "fattr",
                 "proc", "exec", "inet", "dns", "unix", "tty", "getpw">>

\* variant: Shutdown requesting the startup promises again
shutdownPromisesWide == allPromises

shutdownPromises == <<"stdio">>

Range(s) == {s[i] : i \in DOMAIN s}

\* unveil(2) permission strings, as the kernel reads them
PermFlags(perms) ==
    CASE perms = "r" -> {"r"}
      [] perms = "rx" -> {"r", "x"}
      [] perms = "rw" -> {"r", "w"}
      [] perms = "rwc" -> {"r", "w", "c"}
      [] perms = "rwcx" -> {"r", "w", "c", "x"}
      [] OTHER -> {}

(***************************************************************************)
(* Kernel primitives.                                                      *)
(***************************************************************************)
\* unveil(path, perms) is accepted before the lock, for a path that can be unveiled
UnveilOk(path, isSealed) == ~isSealed /\ NoUnveil(path) \notin env

\* unveil(NULL, NULL)
UnveilBlockOk == ~SealFails

\* pledge(promises): a promise string the kernel does not accept is refused,
\* and promises can only be dropped, never added
Refused ==
    (IF Dev("pledge refuses the startup promises") \in env THEN {allPromises} ELSE {})
    \cup (IF Dev("pledge refuses stdio") \in env THEN {<<"stdio">>} ELSE {})

PledgeOk(req) ==
    /\ req \notin Refused
    /\ pledged => Range(req) \subseteq promises

\* what the sandboxed process may read: once a path has been unveiled, the
\* grant on the longest unveiled prefix of the path decides
Covering(p) == {g \in unveiled : IsPrefix(g.path.parts, p.parts)}
Readable(p) ==
    \/ unveiled = {}
    \/ \E g \in Covering(p) :
         /\ \A h \in Covering(p) : Len(h.path.parts) <= Len(g.path.parts)
         /\ "r" \in g.perms

(***************************************************************************)
(* setupUnveil                                                             *)
(***************************************************************************)
systemPaths == <<
    [path |-> Root(<<"usr", "lib">>), perms |-> "r"],
    [path |-> Root(<<"usr", "local", "lib">>), perms |-> "r"],
    [path |-> Root(<<"usr", "bin">>), perms |-> "rx"],
    [path |-> Root(<<"usr", "local", "bin">>), perms |-> "rx"],
    [path |-> Root(<<"bin">>), perms |-> "rx"],
    [path |-> Root(<<"sbin">>), perms |-> "r"],
    [path |-> Root(<<"etc", "ssl", "cert.pem">>), perms |-> "r"],
    [path |-> Root(<<"etc", "ssl", "certs">>), perms |-> "r"],
    [path |-> Root(<<"etc", "resolv.conf">>), perms |-> "r"],
    [path |-> Root(<<"etc", "hosts">>), perms |-> "r"],
    [path |-> Root(<<"etc", "passwd">>), perms |-> "r"],
    [path |-> Root(<<"usr", "share", "zoneinfo">>), perms |-> "r"],
    [path |-> Root(<<"etc", "localtime">>), perms |-> "r"],
    [path |-> Root(<<"dev", "null">>), perms |-> "rw"],
    [path |-> Root(<<"dev", "tty">>), perms |-> "rw"],
    [path |-> Root(<<"dev", "urandom">>), perms |-> "r"] >>

\* one step of setupUnveil: an unveil request, or a return with an error
Req(what, path, perms) ==
    [kind |-> "unveil", what |-> what, path |-> path, perms |-> perms]
Abort(what) ==
    [kind |-> "abort", what |-> what, path |-> EmptyStr, perms |-> ""]

\* the requests whose failure makes setupUnveil return the error
\* variant: the temp directory treated like the data and working directories
IsFatalStrict(what) == what \in {"data", "working", "tmp"}

\* variant: only the data directory treated as mandatory
IsFatalLax(what) == what = "data"

IsFatal(what) == what \in {"data", "working"}

SystemPlan == [i \in DOMAIN systemPaths |->
                  Req("system", systemPaths[i].path, systemPaths[i].perms)]

DataPlan(dataDir) ==
    IF dataDir = EmptyStr THEN <<>>
    ELSE IF Abs(dataDir).err THEN <<Abort("data")>>
    ELSE <<Req("data", Abs(dataDir).path, "rwc")>>

WorkingPlan(workingDir) ==
    IF workingDir = EmptyStr THEN <<>>
    ELSE IF Abs(workingDir).err THEN <<Abort("working")>>
    ELSE <<Req("working", Abs(workingDir).path, "rwcx")>>

HomePlan(dataDir) ==
    IF HomeUnset THEN <<>>
    ELSE
      LET crushDir == Join(HomeDir, <<".crush">>)
          gopath == Getenv("GOPATH")
          gocache == Getenv("GOCACHE")
      IN  (IF Abs(dataDir).path # crushDir
             THEN <<Req("crush", crushDir, "rwc")>> ELSE <<>>)
          \o <<Req("xdg", Join(HomeDir, <<".config">>), "rwc"),
               Req("xdg", Join(HomeDir, <<".local", "share">>), "rwc"),
               Req("gitconfig", Join(HomeDir, <<".gitconfig">>), "r")>>
          \o (IF gopath # EmptyStr THEN <<Req("gopath", gopath, "rwc")>> ELSE <<>>)
          \o (IF gocache # EmptyStr THEN <<Req("gocache", gocache, "rwc")>> ELSE <<>>)

TmpPlan ==
    LET tmpDir == IF MkdirFails THEN TempDir ELSE Join(TempDir, <<UidTmpName>>)
    IN  <<Req("tmp", tmpDir, "rwc")>>

UnveilPlan(dataDir, workingDir) ==
    SystemPlan \o DataPlan(dataDir) \o WorkingPlan(workingDir)
        \o HomePlan(dataDir) \o TmpPlan

Call(fn, what, path, perms, proms, ok) ==
    [fn |-> fn, what |-> what, path |-> path, perms |-> perms,
     promises |-> proms, ok |-> ok]

\* runs the plan from its i-th step: [calls, err]
RECURSIVE RunPlan(_, _, _)
RunPlan(plan, i, calls) ==
    IF i > Len(plan) THEN [calls |-> calls, err |-> ""]
    ELSE IF plan[i].kind = "abort"
      THEN [calls |-> calls, err |-> "resolving " \o plan[i].what \o " dir"]
    ELSE
      LET ok == UnveilOk(plan[i].path, sealed)
          c == Call("unveil", plan[i].what, plan[i].path, plan[i].perms, <<>>, ok)
      IN  IF ~ok /\ IsFatal(plan[i].what)
            THEN [calls |-> Append(calls, c),
                  err |-> "unveil " \o plan[i].what \o " dir"]
            ELSE RunPlan(plan, i + 1, Append(calls, c))

setupUnveil(dataDir, workingDir) ==
    RunPlan(UnveilPlan(dataDir, workingDir), 1, <<>>)

Grants(calls) ==
    {[path |-> calls[i].path, perms |-> PermFlags(calls[i].perms)] :
        i \in {j \in DOMAIN calls : calls[j].fn = "unveil" /\ calls[j].ok}}

(***************************************************************************)
(* The calls and the environments explored.                                *)
(***************************************************************************)
DataDirs == {EmptyStr, Rel(<<".crush">>), Join(HomeDir, <<".crush">>)}
WorkingDirs == {EmptyStr, Rel(<<".">>), HomeDir}

UnveilTargets ==
    {systemPaths[i].path : i \in DOMAIN systemPaths}
    \cup {Join(Cwd, <<".crush">>), Join(HomeDir, <<".crush">>), Cwd, HomeDir,
          Join(HomeDir, <<".config">>), Join(HomeDir, <<".local", "share">>),
          Join(HomeDir, <<".gitconfig">>), GoPathDir, GoCacheDir,
          Join(TempDir, <<UidTmpName>>), TempDir}

Deviations ==
    {NoUnveil(p) : p \in UnveilTargets}
    \cup {Dev(k) : k \in {"HOME unset", "GOPATH unset", "GOCACHE unset",
                          "getwd fails", "mkdir fails", "unveil lock fails",
                          "pledge refuses the startup promises",
                          "pledge refuses stdio"}}

RECURSIVE UpTo(_, _)
UpTo(S, k) ==
    IF k = 0 THEN {{}}
    ELSE UpTo(S, k - 1) \cup {T \cup {x} : T \in UpTo(S, k - 1), x \in S}

NoArgs == [dataDir |-> EmptyStr, workingDir |-> EmptyStr]
\* the shell package left alone: its variable holds the Go zero value and no
\* session exists
NilErr == [kind |-> "nil"]
NoVars == [n \in {} |-> <<>>]
NoRun == [parsed |-> FALSE, ran |-> FALSE, out |-> <<>>, log |-> <<>>,
          dir |-> <<>>, vars |-> NoVars]
Called(op, id, args, err, ret, run) ==
    [op |-> op, id |-> id, args |-> args, err |-> err, ret |-> ret, run |-> run]
NoCall == Called("none", 0, <<>>, NilErr, <<>>, NoRun)
SessionIdle ==
    /\ shells = <<>>
    /\ last = NoCall
    /\ envArray = <<>>
    /\ thr = <<>>
    /\ mu = <<>>
ShellIdle ==
    /\ coreUtilsEnv = ""
    /\ useGoCoreUtils = FALSE
    /\ SessionIdle

BlkIdle == [kind |-> "none", cmds |-> <<>>, cmd |-> <<>>, args |-> <<>>,
            flags |-> <<>>, parts |-> <<>>, done |-> FALSE, result |-> FALSE]

\* no goroutine is inside package security
SecIdle ==
    /\ callers = <<>>
    /\ secMu = 0

SandboxState ==
    /\ initialized = FALSE
    /\ unveiled = {}
    /\ sealed = FALSE
    /\ pledged = FALSE
    /\ promises = {}
    /\ lastOp = "none"
    /\ lastArgs = NoArgs
    /\ lastErr = ""
    /\ lastRet = FALSE
    /\ lastCalls = <<>>
    /\ nInitOk = 0
    /\ nShutdown = 0

SandboxStart == SandboxState /\ SecIdle

Init ==
    /\ goos \in {"openbsd", "linux"}
    /\ env \in (IF goos = "openbsd" THEN UpTo(Deviations, MaxFaults) ELSE {{}})
    /\ SandboxStart
    /\ blk = BlkIdle
    /\ ShellIdle

(***************************************************************************)
(* security_openbsd.go                                                     *)
(***************************************************************************)
\* variant: Init without the already-initialized test
InitRejectsNever == FALSE

\* Init: if initialized { return error }
InitRejects == initialized

\* variant: Init going on to pledge although the lock of the unveil list failed
LockFailedIgnored(ok) == FALSE

\* Init: if err := unix.UnveilBlock(); err != nil { return error }
LockFailed(ok) == ~ok

SecurityInit(dataDir, workingDir) ==
    /\ goos = "openbsd"
    /\ nInitOk < MaxInitOk
    /\ lastOp' = "Init"
    /\ IF InitRejects
         THEN /\ lastErr' = "security already initialized"
              /\ lastCalls' = <<>>
              /\ UNCHANGED <<initialized, unveiled, sealed, pledged, promises,
                             nInitOk, lastArgs>>
         ELSE
           LET r == setupUnveil(dataDir, workingDir)
               sealOk == UnveilBlockOk
               seal == Call("unveilblock", "", EmptyStr, "", <<>>, sealOk)
               pledgeOk == PledgeOk(allPromises)
               pledge == Call("pledge", "", EmptyStr, "", allPromises, pledgeOk)
           IN  /\ lastArgs' = [dataDir |-> dataDir, workingDir |-> workingDir]
               /\ unveiled' = unveiled \cup Grants(r.calls)
               /\ IF r.err # ""
                    THEN /\ lastErr' = "unveil setup failed: " \o r.err
                         /\ lastCalls' = r.calls
                         /\ UNCHANGED <<initialized, sealed, pledged, promises, nInitOk>>
                    ELSE IF LockFailed(sealOk)
                    THEN /\ lastErr' = "unveil lock failed"
                         /\ lastCalls' = Append(r.calls, seal)
                         /\ UNCHANGED <<initialized, sealed, pledged, promises, nInitOk>>
                    ELSE IF ~pledgeOk
                    THEN /\ lastErr' = "pledge failed"
                         /\ lastCalls' = r.calls \o <<seal, pledge>>
                         /\ sealed' = sealOk
                         /\ UNCHANGED <<initialized, pledged, promises, nInitOk>>
                    ELSE /\ lastErr' = ""
                         /\ lastCalls' = r.calls \o <<seal, pledge>>
                         /\ sealed' = sealOk
                         /\ pledged' = TRUE
                         /\ promises' = Range(allPromises)
                         /\ initialized' = TRUE
                         /\ nInitOk' = nInitOk + 1
    /\ UNCHANGED <<goos, env, lastRet, nShutdown, blk, shellVars>>

\* variant: Shutdown without the not-initialized test
ShutdownSkipsNever == FALSE

\* Shutdown: if !initialized { return nil }
ShutdownSkips == ~initialized

SecurityShutdown ==
    /\ goos = "openbsd"
    /\ nShutdown < MaxShutdown
    /\ lastOp' = "Shutdown"
    /\ nShutdown' = IF nInitOk > 0 THEN nShutdown + 1 ELSE nShutdown
    /\ IF ShutdownSkips
         THEN /\ lastErr' = ""
              /\ lastCalls' = <<>>
              /\ UNCHANGED <<pledged, promises>>
         ELSE
           LET ok == PledgeOk(shutdownPromises)
           IN  /\ lastCalls' = <<Call("pledge", "", EmptyStr, "", shutdownPromises, ok)>>
               /\ IF ok
                    THEN /\ lastErr' = ""
                         /\ pledged' = TRUE
                         /\ promises' = Range(shutdownPromises)
                    ELSE /\ lastErr' = "pledge shutdown failed"
                         /\ UNCHANGED <<pledged, promises>>
    /\ UNCHANGED <<goos, env, initialized, unveiled, sealed, lastArgs, lastRet, nInitOk, blk, shellVars>>

IsInitializedValue == initialized

SecurityIsInitialized ==
    /\ goos = "openbsd"
    /\ lastOp' = "IsInitialized"
    /\ lastRet' = IsInitializedValue
    /\ lastErr' = ""
    /\ lastCalls' = <<>>
    /\ UNCHANGED <<goos, env, initialized, unveiled, sealed, pledged, promises,
                   lastArgs, nInitOk, nShutdown, blk, shellVars>>

(***************************************************************************)
(* security_stub.go                                                        *)
(***************************************************************************)
StubInitErr == ""

StubShutdownErr == ""

\* variant: a stub that remembers that Init was called
StubIsInitializedAfterInit == nInitOk > 0

StubIsInitializedValue == FALSE

StubInit(dataDir, workingDir) ==
    /\ goos # "openbsd"
    /\ nInitOk < MaxInitOk
    /\ lastOp' = "Init"
    /\ lastErr' = StubInitErr
    /\ nInitOk' = IF StubInitErr = "" THEN nInitOk + 1 ELSE nInitOk
    /\ lastCalls' = <<>>
    /\ UNCHANGED <<goos, env, initialized, unveiled, sealed, pledged, promises,
                   lastArgs, lastRet, nShutdown, blk, shellVars>>

StubShutdown ==
    /\ goos # "openbsd"
    /\ nShutdown < MaxShutdown
    /\ lastOp' = "Shutdown"
    /\ lastErr' = StubShutdownErr
    /\ nShutdown' = IF nInitOk > 0 THEN nShutdown + 1 ELSE nShutdown
    /\ lastCalls' = <<>>
    /\ UNCHANGED <<goos, env, initialized, unveiled, sealed, pledged, promises,
                   lastArgs, lastRet, nInitOk, blk, shellVars>>

StubIsInitialized ==
    /\ goos # "openbsd"
    /\ lastOp' = "IsInitialized"
    /\ lastRet' = StubIsInitializedValue
    /\ lastErr' = ""
    /\ lastCalls' = <<>>
    /\ UNCHANGED <<goos, env, initialized, unveiled, sealed, pledged, promises,
                   lastArgs, nInitOk, nShutdown, blk, shellVars>>

Next ==
    \/ \E d \in DataDirs, w \in WorkingDirs : SecurityInit(d, w)
    \/ SecurityShutdown
    \/ SecurityIsInitialized
    \/ \E d \in DataDirs, w \in WorkingDirs : StubInit(d, w)
    \/ StubShutdown
    \/ StubIsInitialized

Spec == Init /\ [][Next]_vars

(***************************************************************************)
(* Block predicates of the shell package.  A token is the sequence of its  *)
(* characters.                                                             *)
(***************************************************************************)
curl == <<"c", "u", "r", "l">>
wget == <<"w", "g", "e", "t">>
cat == <<"c", "a", "t">>
httpx == <<"h", "t", "t", "p", ":", "/", "/", "x">>
file == <<"f", "i", "l", "e">>
git == <<"g", "i", "t">>
push == <<"p", "u", "s", "h">>
pull == <<"p", "u", "l", "l">>
origin == <<"o", "r", "i", "g", "i", "n">>
force == <<"-", "-", "f", "o", "r", "c", "e">>
verbose == <<"-", "v">>
verboseEq == <<"-", "v", "=", "1">>

\* strings.HasPrefix(s, prefix)
HasPrefix(s, prefix) == IsPrefix(prefix, s)

\* strings.IndexByte(s, c): the 0-based index of the first c, or -1
RECURSIVE IndexFrom(_, _, _)
IndexFrom(s, c, i) ==
    IF i > Len(s) THEN -1
    ELSE IF s[i] = c THEN i - 1
    ELSE IndexFrom(s, c, i + 1)

IndexByte(s, c) == IndexFrom(s, c, 1)

\* the bannedSet map CommandsBlocker builds from cmds
RECURSIVE BannedSet(_)
BannedSet(cmds) ==
    IF cmds = <<>> THEN {} ELSE {Head(cmds)} \cup BannedSet(Tail(cmds))

\* variant: a blocker that looks at every token
CommandsBlockerAnyToken(cmds, args) ==
    \E i \in DOMAIN args : args[i] \in BannedSet(cmds)

\* CommandsBlocker(cmds)(args)
CommandsBlocker(cmds, args) ==
    IF Len(args) = 0 THEN FALSE
    ELSE args[1] \in BannedSet(cmds)

\* splitArgsFlags(parts): [args, flags]
RECURSIVE splitArgsFlags(_)
splitArgsFlags(parts) ==
    IF parts = <<>> THEN [args |-> <<>>, flags |-> <<>>]
    ELSE
      LET part == Head(parts)
          rest == splitArgsFlags(Tail(parts))
      IN  IF HasPrefix(part, <<"-">>)
            THEN LET idx == IndexByte(part, "=")
                     flag == IF idx # -1 THEN SubSeq(part, 1, idx) ELSE part
                 IN  [args |-> rest.args, flags |-> <<flag>> \o rest.flags]
            ELSE [args |-> <<part>> \o rest.args, flags |-> rest.flags]

\* slice.IsSubset(a, b): every element of a is an element of b
IsSubset(a, b) ==
    IF Len(a) > Len(b) THEN FALSE
    ELSE \A i \in DOMAIN a : \E j \in DOMAIN b : b[j] = a[i]

\* ArgumentsBlocker(cmd, args, flags)(parts)
ArgumentsBlocker(cmd, args, flags, parts) ==
    IF Len(parts) = 0 \/ parts[1] # cmd THEN FALSE
    ELSE
      LET sp == splitArgsFlags(Tail(parts))
      IN  IF Len(sp.args) < Len(args) \/ Len(sp.flags) < Len(flags) THEN FALSE
          ELSE /\ SubSeq(sp.args, 1, Len(args)) = args
               /\ IsSubset(flags, sp.flags)

(***************************************************************************)
(* The block predicates and command lines explored.                        *)
(***************************************************************************)
BannedLists == {<<>>, <<curl>>, <<curl, wget>>, <<wget, curl, curl>>}
CommandTokens == {curl, wget, cat, httpx, file}

RequiredArgs == {<<>>, <<push>>, <<push, origin>>}
RequiredFlags == {<<>>, <<force>>, <<verbose>>, <<force, verbose>>, <<force, force>>}
ArgumentTokens == {git, push, pull, origin, force, verboseEq}

BlkInput(kind, cmds, cmd, args, flags, parts) ==
    [kind |-> kind, cmds |-> cmds, cmd |-> cmd, args |-> args, flags |-> flags,
     parts |-> parts, done |-> FALSE, result |-> FALSE]

InitBlock ==
    /\ goos = "linux"
    /\ env = {}
    /\ SandboxStart
    /\ ShellIdle
    /\ \E n \in 0..MaxParts :
         \/ \E c \in BannedLists, p \in [1..n -> CommandTokens] :
              blk = BlkInput("commands", c, <<>>, <<>>, <<>>, p)
         \/ \E a \in RequiredArgs, f \in RequiredFlags, p \in [1..n -> ArgumentTokens] :
              blk = BlkInput("arguments", <<>>, git, a, f, p)

CallCommandsBlocker ==
    /\ blk.kind = "commands"
    /\ ~blk.done
    /\ blk' = [blk EXCEPT !.done = TRUE,
                          !.result = CommandsBlocker(blk.cmds, blk.parts)]
    /\ UNCHANGED <<sandboxVars, shellVars>>

CallArgumentsBlocker ==
    /\ blk.kind = "arguments"
    /\ ~blk.done
    /\ blk' = [blk EXCEPT !.done = TRUE,
                          !.result = ArgumentsBlocker(blk.cmd, blk.args, blk.flags,
                                                      blk.parts)]
    /\ UNCHANGED <<sandboxVars, shellVars>>

NextBlock == CallCommandsBlocker \/ CallArgumentsBlocker

SpecBlock == InitBlock /\ [][NextBlock]_vars

(***************************************************************************)
(* The start-up of the shell package and its script detection: the package *)
(* function init, which sets useGoCoreUtils from CRUSH_CORE_UTILS and      *)
(* runtime.GOOS, and isShellScript, applied to one file.                   *)
(***************************************************************************)
\* strconv.ParseBool: the literals it accepts, anything else is an error
ParseBool(str) ==
    IF str \in {"1", "t", "T", "TRUE", "true", "True"}
      THEN [err |-> FALSE, v |-> TRUE]
    ELSE IF str \in {"0", "f", "F", "FALSE", "false", "False"}
      THEN [err |-> FALSE, v |-> FALSE]
    ELSE [err |-> TRUE, v |-> FALSE]

\* variant: the default enabled on OpenBSD alone
initOpenBSDOnly(os, value) ==
    IF ~ParseBool(value).err THEN ParseBool(value).v ELSE os = "openbsd"

\* func init: the value it assigns to useGoCoreUtils
init(os, value) ==
    IF ~ParseBool(value).err
      THEN ParseBool(value).v
      ELSE os = "windows" \/ os = "openbsd"

\* strings.Contains
Contains(s, sub) ==
    \E i \in 0..(Len(s) - Len(sub)) : SubSeq(s, i + 1, i + Len(sub)) = sub

\* the size of the buffer isShellScript reads the head of the file into
HeaderBytes == 128

\* a file as os.Open and Read see it
NoFile == [kind |-> "missing", content |-> <<>>]
DirFile == [kind |-> "dir", content |-> <<>>]
RegFile(content) == [kind |-> "file", content |-> content]

binSh == <<"/", "b", "i", "n", "/", "s", "h">>
binBash == <<"/", "b", "i", "n", "/", "b", "a", "s", "h">>
envSh == <<" ", "e", "n", "v", " ", "s", "h">>
envBash == <<" ", "e", "n", "v", " ", "b", "a", "s", "h">>
shebang == <<"#", "!">>

\* isShellScript: Open fails, or Read fails with an error other than io.EOF,
\* gives false; otherwise the test is made on the bytes read
isShellScript(f) ==
    IF f.kind # "file" THEN FALSE
    ELSE
      LET n == IF Len(f.content) < HeaderBytes THEN Len(f.content) ELSE HeaderBytes
          header == SubSeq(f.content, 1, n)
      IN  /\ HasPrefix(header, shebang)
          /\ \/ Contains(header, binSh)
             \/ Contains(header, binBash)
             \/ Contains(header, envSh)
             \/ Contains(header, envBash)

\* the values of CRUSH_CORE_UTILS and of runtime.GOOS tried
CoreUtilsValues == {"", "1", "0", "t", "F", "true", "false", "True", "FALSE",
                    "yes", "no", "on", "2", "tRUE"}
GoosValues == {"openbsd", "windows", "linux", "darwin"}

\* the files tried: a first line made of an opening, blanks, an interpreter and
\* a newline, followed by one more line
usrBinEnvSh == <<"/", "u", "s", "r", "/", "b", "i", "n", "/", "e", "n", "v", " ", "s", "h">>
usrBinEnvBash == <<"/", "u", "s", "r", "/", "b", "i", "n", "/", "e", "n", "v", " ", "b", "a", "s", "h">>
usrBinPython3 == <<"/", "u", "s", "r", "/", "b", "i", "n", "/", "p", "y", "t", "h", "o", "n", "3">>
usrBinEnvPython3 == <<"/", "u", "s", "r", "/", "b", "i", "n", "/", "e", "n", "v", " ", "p", "y", "t", "h", "o", "n", "3">>
Openings == {shebang, <<"#">>, <<"!", "#">>, <<>>}
Interpreters == {binSh, binBash, usrBinEnvSh, usrBinEnvBash, usrBinPython3,
                 usrBinEnvPython3}
Blanks(n) == [i \in 1..n |-> " "]
BlankCounts == {0, 1, HeaderBytes - 10, HeaderBytes - 9, HeaderBytes - 8}
secondLine == <<"e", "c", "h", "o", " ", "h", "i", "\n">>
FileOf(opening, blanks, interpreter) ==
    RegFile(opening \o Blanks(blanks) \o interpreter \o <<"\n">> \o secondLine)

InitPure ==
    /\ env = {}
    /\ SandboxStart
    /\ useGoCoreUtils = FALSE
    /\ SessionIdle
    /\ \/ /\ goos \in GoosValues
          /\ coreUtilsEnv \in CoreUtilsValues
          /\ blk = [kind |-> "init", done |-> FALSE]
       \/ /\ goos = "linux"
          /\ coreUtilsEnv = ""
          /\ \/ \E f \in {NoFile, DirFile, RegFile(<<>>)} :
                  blk = [kind |-> "isShellScript", file |-> f, opening |-> <<>>,
                         blanks |-> 0, interpreter |-> <<>>, done |-> FALSE,
                         result |-> FALSE]
             \/ \E o \in Openings, b \in BlankCounts, i \in Interpreters :
                  blk = [kind |-> "isShellScript", file |-> FileOf(o, b, i),
                         opening |-> o, blanks |-> b, interpreter |-> i,
                         done |-> FALSE, result |-> FALSE]

\* the package is initialized: init runs once, before any other code of the package
RunInit ==
    /\ blk.kind = "init"
    /\ ~blk.done
    /\ useGoCoreUtils' = init(goos, coreUtilsEnv)
    /\ blk' = [blk EXCEPT !.done = TRUE]
    /\ UNCHANGED <<sandboxVars, coreUtilsEnv, shells, last, concVars>>

CallIsShellScript ==
    /\ blk.kind = "isShellScript"
    /\ ~blk.done
    /\ blk' = [blk EXCEPT !.done = TRUE, !.result = isShellScript(blk.file)]
    /\ UNCHANGED <<sandboxVars, shellVars>>

NextPure == RunInit \/ CallIsShellScript

SpecPure == InitPure /\ [][NextPure]_vars

(***************************************************************************)
(* The shell session (package shell): a session with its working           *)
(* directory, environment and block list, the interceptors it installs at  *)
(* every spawn point, and the interpreter (mvdan.cc/sh) as far as the      *)
(* session depends on it.  Command strings, tokens, paths and environment  *)
(* entries are sequences of characters.                                    *)
(***************************************************************************)
\* strings.Join
RECURSIVE JoinStrings(_, _)
JoinStrings(elems, sep) ==
    IF elems = <<>> THEN <<>>
    ELSE IF Len(elems) = 1 THEN elems[1]
    ELSE elems[1] \o sep \o JoinStrings(Tail(elems), sep)

\* the position of the last occurrence of a byte, 0 if there is none
LastIndexByte(s, c) ==
    IF \E i \in DOMAIN s : s[i] = c
      THEN CHOOSE i \in DOMAIN s : s[i] = c /\ \A j \in DOMAIN s : s[j] = c => j <= i
      ELSE 0

\* the string without its trailing slashes
RECURSIVE TrimSlashes(_)
TrimSlashes(s) ==
    IF s # <<>> /\ s[Len(s)] = "/" THEN TrimSlashes(SubSeq(s, 1, Len(s) - 1)) ELSE s

\* filepath.Base
Base(path) ==
    IF path = <<>> THEN <<".">>
    ELSE LET t == TrimSlashes(path)
         IN  IF t = <<>> THEN <<"/">>
             ELSE SubSeq(t, LastIndexByte(t, "/") + 1, Len(t))

\* strings.Split on one separator byte
RECURSIVE SplitOn(_, _)
SplitOn(s, c) ==
    IF ~\E i \in DOMAIN s : s[i] = c THEN <<s>>
    ELSE LET i == CHOOSE k \in DOMAIN s : s[k] = c /\ \A j \in 1..(k - 1) : s[j] # c
         IN  <<SubSeq(s, 1, i - 1)>> \o SplitOn(SubSeq(s, i + 1, Len(s)), c)

\* filepath.SplitList: the empty string has no elements
SplitList(pathEnv) == IF pathEnv = <<>> THEN <<>> ELSE SplitOn(pathEnv, ":")

\* an environment entry "name=value" and its two halves (split at the first "=")
Entry(name, value) == name \o <<"=">> \o value
EntryName(e) ==
    IF \E i \in DOMAIN e : e[i] = "=" THEN SplitOn(e, "=")[1] ELSE e
EntryValue(e) ==
    IF \E i \in DOMAIN e : e[i] = "="
      THEN SubSeq(e, Len(EntryName(e)) + 2, Len(e))
      ELSE <<>>

\* the files and directories of the machine the session runs on
tmpDir == <<"/", "t", "m", "p">>
workDir == <<"/", "w">>
binDir == <<"/", "b", "i", "n">>
scriptFile == <<"/", "t", "m", "p", "/", "s", ".", "s", "h">>
runScriptFile == <<"/", "b", "i", "n", "/", "r", "u", "n", ".", "s", "h">>
ExecFile(content) == [kind |-> "file", content |-> content, exec |-> TRUE]
PlainFile(content) == [kind |-> "file", content |-> content, exec |-> FALSE]
Binary == ExecFile(<<"E", "L", "F">>)
Stat(path) ==
    IF path \in {tmpDir, workDir, binDir, <<"/">>} THEN DirFile
    ELSE IF path = scriptFile THEN PlainFile(<<"c", "u", "r", "l", " ", "x", "\n", "l", "s", "\n">>)
    ELSE IF path = runScriptFile THEN ExecFile(<<"#", "!", "/", "b", "i", "n", "/", "s", "h", "\n", "c", "a", "t", " ", "f", "\n">>)
    ELSE IF path \in {<<"/", "b", "i", "n", "/", "c", "u", "r", "l">>, <<"/", "b", "i", "n", "/", "g", "i", "t">>, <<"/", "b", "i", "n", "/", "c", "a", "t">>, <<"/", "b", "i", "n", "/", "l", "s">>, <<"/", "b", "i", "n", "/", "s", "h">>,
                      <<"/", "b", "i", "n", "/", "b", "a", "s", "h">>}
      THEN Binary
    ELSE NoFile
IsDir(path) == Stat(path).kind = "dir"

(***************************************************************************)
(* syntax.Parser.Parse, for the part of the shell language used here:      *)
(* simple commands of words separated by blanks, joined by ";", newline or *)
(* "&&"; single quotes; comments; a word "$NAME" is a parameter expansion. *)
(***************************************************************************)
Word(text, quoted) == [text |-> text, quoted |-> quoted]
Stmt(op, words) == [op |-> op, words |-> words]

LexStart == [stmts |-> <<>>, words |-> <<>>, cur |-> <<>>, inWord |-> FALSE,
             quoted |-> FALSE, inQuote |-> FALSE, op |-> ";", err |-> FALSE]

EndWord(st) ==
    IF st.inWord
      THEN [st EXCEPT !.words = Append(@, Word(st.cur, st.quoted)),
                      !.cur = <<>>, !.inWord = FALSE, !.quoted = FALSE]
      ELSE st

\* the end of a command: an operator with no command before it is a syntax
\* error, a newline with no command before it is skipped
EndStmt(st, nextOp, operator) ==
    LET w == EndWord(st)
    IN  IF w.words = <<>>
          THEN IF operator THEN [w EXCEPT !.err = TRUE] ELSE w
          ELSE [w EXCEPT !.stmts = Append(@, Stmt(w.op, w.words)),
                         !.words = <<>>, !.op = nextOp]

\* the position of the next newline at or after i, Len + 1 if there is none
LineEnd(text, i) ==
    IF \E j \in i..Len(text) : text[j] = "\n"
      THEN CHOOSE j \in i..Len(text) :
             text[j] = "\n" /\ \A k \in i..(j - 1) : text[k] # "\n"
      ELSE Len(text) + 1

RECURSIVE Lex(_, _, _)
Lex(text, i, st) ==
    IF st.err THEN st
    ELSE IF i > Len(text)
      THEN IF st.inQuote THEN [st EXCEPT !.err = TRUE]
           ELSE LET w == EndWord(st)
                IN  IF w.words = <<>>
                      THEN IF w.op = "&&" THEN [w EXCEPT !.err = TRUE] ELSE w
                      ELSE [w EXCEPT !.stmts = Append(@, Stmt(w.op, w.words)),
                                     !.words = <<>>]
    ELSE
      LET c == text[i]
      IN  IF st.inQuote
            THEN IF c = "'"
                   THEN Lex(text, i + 1, [st EXCEPT !.inQuote = FALSE])
                   ELSE Lex(text, i + 1, [st EXCEPT !.cur = Append(@, c)])
          ELSE IF c = "'"
            THEN Lex(text, i + 1, [st EXCEPT !.inQuote = TRUE, !.inWord = TRUE,
                                             !.quoted = TRUE])
          ELSE IF c = " " THEN Lex(text, i + 1, EndWord(st))
          ELSE IF c = "\n" THEN Lex(text, i + 1, EndStmt(st, ";", FALSE))
          ELSE IF c = ";" THEN Lex(text, i + 1, EndStmt(st, ";", TRUE))
          ELSE IF c = "&"
            THEN IF i < Len(text) /\ text[i + 1] = "&"
                   THEN Lex(text, i + 2, EndStmt(st, "&&", TRUE))
                   ELSE [st EXCEPT !.err = TRUE]   \* "&" alone is not modelled
          ELSE IF c = "#" /\ ~st.inWord THEN Lex(text, LineEnd(text, i), st)
          ELSE Lex(text, i + 1, [st EXCEPT !.cur = Append(@, c), !.inWord = TRUE])

\* variant: a parser that hands over the commands read before the error
ParseLenient(text) == [err |-> FALSE, stmts |-> Lex(text, 1, LexStart).stmts]

Parse(text) ==
    LET st == Lex(text, 1, LexStart)
    IN  [err |-> st.err, stmts |-> IF st.err THEN <<>> ELSE st.stmts]

(***************************************************************************)
(* Variables of a runner: a function from names to values.                 *)
(***************************************************************************)
SetVar(vs, name, value) ==
    [n \in DOMAIN vs \cup {name} |-> IF n = name THEN value ELSE vs[n]]

\* expand.ListEnviron: of two entries with one name the later one counts
RECURSIVE ListEnviron(_)
ListEnviron(list) ==
    IF list = <<>> THEN NoVars
    ELSE LET e == list[Len(list)]
             rest == ListEnviron(SubSeq(list, 1, Len(list) - 1))
         IN  SetVar(rest, EntryName(e), EntryValue(e))

\* the fields a command's words expand to: an unquoted "$NAME" gives the value
\* of NAME, and no field when the value is empty
RECURSIVE Fields(_, _)
Fields(words, vs) ==
    IF words = <<>> THEN <<>>
    ELSE LET w == Head(words)
             name == Tail(w.text)
             value == IF name \in DOMAIN vs THEN vs[name] ELSE <<>>
         IN  (IF ~w.quoted /\ Len(w.text) > 1 /\ w.text[1] = "$"
                THEN IF value = <<>> THEN <<>> ELSE <<value>>
                ELSE <<w.text>>)
             \o Fields(Tail(words), vs)

(***************************************************************************)
(* Errors.                                                                 *)
(***************************************************************************)
\* interp.ExitStatus
ExitStatus(code) == [kind |-> "exit", code |-> code]
\* ctx.Err() of a context that is done: context.Canceled or DeadlineExceeded
CtxErr(ctx) == [kind |-> ctx]
\* fmt.Errorf with %w: an error wrapping another one
Wrap(msg, inner) == [kind |-> "wrap", msg |-> msg, inner |-> inner]
SyntaxErr == [kind |-> "syntax"]
ReadFileErr(path) == [kind |-> "readfile", path |-> path]
\* blockHandler's error: the message followed by the tokens joined by blanks
BlockedErr(args) ==
    [kind |-> "blocked",
     msg |-> "command is not allowed for security reasons: ",
     cmdline |-> JoinStrings(args, <<" ">>)]
DashCErr(cmd) == [kind |-> "sh", cmd |-> cmd, msg |-> ": -c requires an argument"]
InteractiveErr(cmd) ==
    [kind |-> "sh", cmd |-> cmd, msg |-> ": interactive mode not supported"]

\* errors.Is against a context error
RECURSIVE ErrorsIs(_, _)
ErrorsIs(err, target) ==
    IF err.kind = target THEN TRUE
    ELSE IF err.kind = "wrap" THEN ErrorsIs(err.inner, target)
    ELSE FALSE

\* variant: only context.Canceled taken for an interruption
IsInterruptCanceledOnly(err) == ErrorsIs(err, "canceled")

IsInterrupt(err) == ErrorsIs(err, "canceled") \/ ErrorsIs(err, "deadline")

(***************************************************************************)
(* A block predicate as a value, and the block list applied to a command.  *)
(***************************************************************************)
CommandsBlockFunc(cmds) == [type |-> "commands", cmds |-> cmds]
ArgumentsBlockFunc(cmd, args, flags) ==
    [type |-> "arguments", cmd |-> cmd, args |-> args, flags |-> flags]
BlockFunc(bf, args) ==
    IF bf.type = "commands" THEN CommandsBlocker(bf.cmds, args)
    ELSE ArgumentsBlocker(bf.cmd, bf.args, bf.flags, args)

\* variant: only the first predicate of the block list consulted
BlocksFirstOnly(blockFuncs, args) ==
    blockFuncs # <<>> /\ BlockFunc(blockFuncs[1], args)

\* blockHandler: for _, blockFunc := range s.blockFuncs { if blockFunc(args) ...
Blocks(blockFuncs, args) ==
    \E i \in DOMAIN blockFuncs : BlockFunc(blockFuncs[i], args)

(***************************************************************************)
(* The interceptors and the runner.  A runner is [dir, vars, exit, err,    *)
(* out, log]: out is what it wrote to stdout, line by line, and log lists  *)
(* the simple commands it started, each with the interceptors that saw it  *)
(* and what became of it.                                                  *)
(***************************************************************************)
sh == <<"s", "h">>
bash == <<"b", "a", "s", "h">>
dashC == <<"-", "c">>
dash == <<"-">>
slash == <<"/">>
dot == <<".">>
pathName == <<"P", "A", "T", "H">>
pwdName == <<"P", "W", "D">>

\* variant: only "sh" taken for a shell
IsShellNameShOnly(cmd) == cmd = sh

\* shHandler: if cmd == "sh" || cmd == "bash"
IsShellName(cmd) == cmd = sh \/ cmd = bash

\* shHandler's scan of the arguments, from the one at index i on
RECURSIVE ShScan(_, _)
ShScan(args, i) ==
    IF i > Len(args)
      THEN [missing |-> FALSE, content |-> <<>>, file |-> <<>>, params |-> <<>>]
    ELSE IF args[i] = dashC
      THEN IF i + 1 <= Len(args)
             THEN [missing |-> FALSE, content |-> args[i + 1], file |-> <<>>,
                   params |-> SubSeq(args, i + 2, Len(args))]
             ELSE [missing |-> TRUE, content |-> <<>>, file |-> <<>>,
                   params |-> <<>>]
    ELSE IF ~HasPrefix(args[i], dash)
      THEN [missing |-> FALSE, content |-> <<>>, file |-> args[i],
            params |-> SubSeq(args, i, Len(args))]
    ELSE ShScan(args, i + 1)

\* filepath.Join of a directory and a file name
FilepathJoin(dir, name) ==
    IF dir = dot THEN name
    ELSE IF TrimSlashes(dir) = <<>> THEN slash \o name
    ELSE TrimSlashes(dir) \o slash \o name

\* lookPath: the first directory of PATH holding an executable file of that name
RECURSIVE LookIn(_, _)
LookIn(dirs, name) ==
    IF dirs = <<>> THEN [err |-> TRUE, path |-> <<>>]
    ELSE LET dir == IF Head(dirs) = <<>> THEN dot ELSE Head(dirs)
             path == FilepathJoin(dir, name)
             info == Stat(path)
         IN  IF info.kind = "file" /\ info.exec
               THEN [err |-> FALSE, path |-> path]
               ELSE LookIn(Tail(dirs), name)

lookPath(name, pathEnv) ==
    IF pathEnv = <<>> THEN [err |-> TRUE, path |-> <<>>]
    ELSE LookIn(SplitList(pathEnv), name)

\* os.ReadFile
ReadFile(path) ==
    IF Stat(path).kind = "file"
      THEN [err |-> NilErr, content |-> Stat(path).content]
      ELSE [err |-> ReadFileErr(path), content |-> <<>>]

\* the commands coreutils.ExecHandler runs in-process
ls == <<"l", "s">>
CoreUtils == {cat, ls}

\* the built-in commands of the interpreter
cd == <<"c", "d">>
export == <<"e", "x", "p", "o", "r", "t">>
echo == <<"e", "c", "h", "o">>
trueCmd == <<"t", "r", "u", "e">>
falseCmd == <<"f", "a", "l", "s", "e">>
Builtins == {cd, export, echo, trueCmd, falseCmd}

\* one simple command in the log: its tokens, the handlers that saw it, what
\* became of it and, when it was run as a script, the script and its parameters
LogEntry(args, consulted, outcome) ==
    [args |-> args, consulted |-> consulted, outcome |-> outcome,
     script |-> <<>>, params |-> <<>>]
ScriptEntry(args, consulted, script, params) ==
    [args |-> args, consulted |-> consulted, outcome |-> "inprocess",
     script |-> script, params |-> params]

\* what a handler hands back to the runner
Handled(err, out, log) == [err |-> err, out |-> out, log |-> log]

\* variant: the shell handler installed before the block handler
execHandlersShFirst ==
    IF useGoCoreUtils
      THEN <<"shHandler", "blockHandler", "scriptExecutionHandler",
             "coreutils.ExecHandler">>
      ELSE <<"blockHandler">>

\* execHandlers: the interceptors in the order they are installed
execHandlers ==
    <<"blockHandler">> \o
    (IF useGoCoreUtils
       THEN <<"shHandler", "scriptExecutionHandler", "coreutils.ExecHandler">>
       ELSE <<>>)

\* interp.Runner.Reset: the runner's own variables
Reset(r) == [r EXCEPT !.vars = SetVar(@, pwdName, r.dir)]

NewRunner(dir, vs, out, log) ==
    [dir |-> dir, vars |-> vs, exit |-> 0, err |-> NilErr, out |-> out, log |-> log]

\* the texts that are parsed in the runs below, parsed once
Texts == {<<>>, <<"c", "d", " ", "/", "t", "m", "p", " ", "&", "&", " ", "e", "x", "p", "o", "r", "t", " ", "X", "=", "1">>, <<"e", "c", "h", "o", " ", "$", "X">>, <<"c", "u", "r", "l", " ", "x">>,
          <<"c", "a", "t", " ", "f", ";", " ", "c", "u", "r", "l", " ", "x", ";", " ", "c", "d", " ", "/", "t", "m", "p">>, <<"g", "i", "t", " ", "p", "u", "s", "h", " ", "o", "r", "i", "g", "i", "n">>, <<"s", "h", " ", "-", "c", " ", "'", "c", "u", "r", "l", " ", "x", ";", " ", "l", "s", "'">>,
          <<"c", "u", "r", "l", " ", "x", ";", " ", "l", "s">>, <<"b", "a", "s", "h", " ", "/", "t", "m", "p", "/", "s", ".", "s", "h">>, <<"s", "h">>, <<"/", "b", "i", "n", "/", "s", "h", " ", "-", "x", " ", "-", "c">>,
          <<"s", "h", " ", "/", "t", "m", "p", "/", "n", "o", "n", "e", ".", "s", "h">>, <<"/", "b", "i", "n", "/", "r", "u", "n", ".", "s", "h", " ", "a">>, <<"c", "d", " ", "/", "t", "m", "p", ";", " ", "f", "a", "l", "s", "e">>, <<"n", "o", "s", "u", "c", "h">>,
          <<"e", "c", "h", "o", " ", "'", "x">>, Stat(scriptFile).content, Stat(runScriptFile).content,
          <<"c", "d", " ", "/", "t", "m", "p", ";", " ", "e", "c", "h", "o", " ", "'", "x">>,
          <<"s", "h", " ", "-", "c", " ", "'", "b", "a", "s", "h", " ", "/", "t", "m", "p", "/", "s", ".", "s", "h", "'">>,
          <<"s", "h", " ", "-", "c", " ", "'", "'">>,
          <<"b", "a", "s", "h", " ", "-", "x", " ", "-", "c", " ", "'", "l", "s", "'", " ", "a", " ", "b">>, <<"l", "s">>}
ParseTable == [t \in Texts |-> Parse(t)]
Parsed(text) == IF text \in Texts THEN ParseTable[text] ELSE Parse(text)

RECURSIVE RunStmts(_, _, _, _, _)

\* the error of a finished run: a non-zero exit status becomes the error
\* returned, unless a handler's error already stopped the run
ExitErr(r) ==
    IF r.err = NilErr /\ r.exit # 0 THEN [r EXCEPT !.err = ExitStatus(r.exit)]
    ELSE r

\* interp.Runner.Run
Run(stmts, r0, ctx, blockFuncs) ==
    ExitErr(RunStmts(stmts, 1, Reset(r0), ctx, blockFuncs))

\* what a handler that ran a script hands back
OfRunner(r) == Handled(r.err, r.out, r.log)

\* runScript: a new runner with the handlers of the same session
runScript(content, params, vs, dir, out, log, ctx, blockFuncs) ==
    IF Parsed(content).err
      THEN Handled(Wrap("could not parse script", SyntaxErr), out, log)
      ELSE OfRunner(Run(Parsed(content).stmts, NewRunner(dir, vs, out, log),
                        ctx, blockFuncs))

\* interp.DefaultExecHandler: the command is looked up and run as a child
\* process; one that is not found gives exit status 127
NativeErr(args, r) ==
    LET name == args[1]
        pathEnv == IF pathName \in DOMAIN r.vars THEN r.vars[pathName] ELSE <<>>
        found == IF Contains(name, slash)
                   THEN Stat(name).kind = "file" /\ Stat(name).exec
                   ELSE ~lookPath(name, pathEnv).err
    IN  IF found THEN NilErr ELSE ExitStatus(127)

\* what a handler does with a command: it calls next, it returns (an error,
\* or nil for a command it ran itself), or it runs a script in-process
Verdict(does, err, content, params) ==
    [does |-> does, err |-> err, content |-> content, params |-> params]
CallNext == Verdict("next", NilErr, <<>>, <<>>)
Returns(does, err) == Verdict(does, err, <<>>, <<>>)
RunsScript(content, params) == Verdict("inprocess", NilErr, content, params)

\* the script of a file that was read, or the error of reading it
ScriptRead(read, params) ==
    IF read.err # NilErr THEN Returns("error", read.err)
    ELSE RunsScript(read.content, params)

blockHandler(args, blockFuncs) ==
    IF args = <<>> THEN CallNext
    ELSE IF Blocks(blockFuncs, args) THEN Returns("blocked", BlockedErr(args))
    ELSE CallNext

shHandler(args) ==
    IF args = <<>> THEN CallNext
    ELSE IF IsShellName(Base(args[1]))
      THEN LET cmd == Base(args[1])
               a == ShScan(args, 2)
           IN  IF a.missing THEN Returns("error", DashCErr(cmd))
               ELSE IF a.content # <<>> THEN RunsScript(a.content, a.params)
               ELSE IF a.file # <<>> THEN ScriptRead(ReadFile(a.file), a.params)
               ELSE Returns("error", InteractiveErr(cmd))
    ELSE CallNext

scriptExecutionHandler(args, r) ==
    IF args = <<>> THEN CallNext
    ELSE IF Base(args[1]) = sh \/ Base(args[1]) = bash THEN CallNext
    ELSE
      LET pathEnv == IF pathName \in DOMAIN r.vars THEN r.vars[pathName] ELSE <<>>
          looked == lookPath(args[1], pathEnv)
          resolved == Contains(args[1], slash) \/ ~looked.err
          path == IF Contains(args[1], slash) THEN args[1] ELSE looked.path
      IN  IF ~resolved THEN CallNext
          ELSE IF isShellScript(Stat(path)) THEN ScriptRead(ReadFile(path), args)
          ELSE CallNext

\* coreutils.ExecHandler: the commands it implements run in-process
coreutilsExecHandler(args) ==
    IF args # <<>> /\ args[1] \in CoreUtils THEN Returns("coreutils", NilErr)
    ELSE CallNext

HandlerCall(h, args, r, blockFuncs) ==
    IF h = "blockHandler" THEN blockHandler(args, blockFuncs)
    ELSE IF h = "shHandler" THEN shHandler(args)
    ELSE IF h = "scriptExecutionHandler" THEN scriptExecutionHandler(args, r)
    ELSE coreutilsExecHandler(args)

RECURSIVE Handle(_, _, _, _, _, _)

\* what becomes of the command after the k-th handler's verdict v
Follow(v, k, args, r, ctx, blockFuncs, here) ==
    IF v.does = "next" THEN Handle(k + 1, args, r, ctx, blockFuncs, here)
    ELSE IF v.does = "inprocess"
      THEN runScript(v.content, v.params, r.vars, r.dir, r.out,
                     Append(r.log, ScriptEntry(args, here, v.content, v.params)),
                     ctx, blockFuncs)
    ELSE Handled(v.err, r.out, Append(r.log, LogEntry(args, here, v.does)))

\* the call of the k-th installed handler for a command; seen lists the
\* handlers the command went through before.  After the last handler the
\* command is run as a child process
Handle(k, args, r, ctx, blockFuncs, seen) ==
    IF k > Len(execHandlers)
      THEN Handled(NativeErr(args, r), r.out,
                   Append(r.log, LogEntry(args, seen, "native")))
      ELSE Follow(HandlerCall(execHandlers[k], args, r, blockFuncs),
                  k, args, r, ctx, blockFuncs, Append(seen, execHandlers[k]))

\* export NAME=VALUE ...
RECURSIVE ExportAll(_, _)
ExportAll(vs, args) ==
    IF args = <<>> THEN vs
    ELSE IF \E i \in DOMAIN Head(args) : Head(args)[i] = "="
      THEN ExportAll(SetVar(vs, EntryName(Head(args)), EntryValue(Head(args))),
                     Tail(args))
    ELSE ExportAll(vs, Tail(args))

\* a built-in command: cd with one argument, export, echo, true, false
Builtin(argv, r) ==
    IF argv[1] = cd
      THEN LET path == IF Len(argv) = 2
                         THEN IF HasPrefix(argv[2], slash) THEN argv[2]
                              ELSE FilepathJoin(r.dir, argv[2])
                         ELSE <<>>
           IN  IF IsDir(path)
                 THEN [r EXCEPT !.dir = path, !.vars = SetVar(@, pwdName, path),
                                !.exit = 0]
                 ELSE [r EXCEPT !.exit = 1]
    ELSE IF argv[1] = export
      THEN [r EXCEPT !.vars = ExportAll(@, Tail(argv)), !.exit = 0]
    ELSE IF argv[1] = echo
      THEN [r EXCEPT !.out = Append(@, JoinStrings(Tail(argv), <<" ">>)), !.exit = 0]
    ELSE IF argv[1] = trueCmd THEN [r EXCEPT !.exit = 0]
    ELSE [r EXCEPT !.exit = 1]

\* the runner after a handler returned h: nil is exit status 0, an ExitStatus
\* sets the status and any other error halts the runner
AfterHandler(r, h) ==
    [r EXCEPT !.out = h.out, !.log = h.log,
              !.exit = IF h.err = NilErr THEN 0
                       ELSE IF h.err.kind = "exit" THEN h.err.code
                       ELSE 1,
              !.err = IF h.err.kind = "exit" THEN NilErr ELSE h.err]

\* one simple command: a built-in runs in the runner, anything else goes to
\* the handlers
RunStmt(st, r, ctx, blockFuncs) ==
    LET argv == Fields(st.words, r.vars)
    IN  IF argv = <<>> THEN [r EXCEPT !.exit = 0]
        ELSE IF argv[1] \in Builtins
          THEN Builtin(argv, [r EXCEPT !.log = Append(@, LogEntry(argv, <<>>, "builtin"))])
        ELSE AfterHandler(r, Handle(1, argv, r, ctx, blockFuncs, <<>>))

\* the commands of a program in turn: the runner stops at an error and, before
\* each command, at a context that is done; the command after "&&" is skipped
\* when the one before it failed
RunStmts(stmts, i, r, ctx, blockFuncs) ==
    IF i > Len(stmts) THEN r
    ELSE IF r.err # NilErr THEN r
    ELSE IF ctx # "live" THEN [r EXCEPT !.err = CtxErr(ctx)]
    ELSE IF stmts[i].op = "&&" /\ r.exit # 0
      THEN RunStmts(stmts, i + 1, r, ctx, blockFuncs)
    ELSE RunStmts(stmts, i + 1, RunStmt(stmts[i], r, ctx, blockFuncs), ctx, blockFuncs)

(***************************************************************************)
(* The session: NewShell and the operations of a Shell.  Each operation    *)
(* holds the session's mutex from its first to its last statement and is   *)
(* one step here.                                                           *)
(***************************************************************************)
\* os.Getwd and os.Environ of the process that creates the session
Getwd == workDir
\* Options.Env: a nil slice or a list of entries
NilEnv == [nil |-> TRUE, list |-> <<>>]
EnvOf(list) == [nil |-> FALSE, list |-> list]
Environ == <<Entry(<<"P", "A", "T", "H">>, <<"/", "b", "i", "n">>), Entry(<<"A">>, <<"1">>)>>

Options(workingDir, envList, blockFuncs) ==
    [WorkingDir |-> workingDir, Env |-> envList, BlockFuncs |-> blockFuncs]

NewShell(opts) ==
    [cwd |-> IF opts.WorkingDir = <<>> THEN Getwd ELSE opts.WorkingDir,
     env |-> IF opts.Env.nil THEN Environ ELSE opts.Env.list,
     blockFuncs |-> opts.BlockFuncs]

\* newInterp: a runner on the session's directory and environment (interp.Dir
\* refuses a path that is not a directory)
newInterp(s) ==
    IF IsDir(s.cwd)
      THEN [err |-> NilErr, runner |-> NewRunner(s.cwd, ListEnviron(s.env), <<>>, <<>>)]
      ELSE [err |-> [kind |-> "notdir"], runner |-> NewRunner(s.cwd, NoVars, <<>>, <<>>)]

\* the names of a map in the order a range visits them.  Go leaves the order
\* open; the list is built in one order, and a list without repeated names
\* means the same to ListEnviron and SetEnv in any order
RECURSIVE RangeOrder(_)
RangeOrder(names) ==
    IF names = {} THEN <<>>
    ELSE LET n == CHOOSE x \in names : TRUE
         IN  <<n>> \o RangeOrder(names \ {n})

\* variant: only the directory taken over from the runner
updateShellFromRunnerDirOnly(s, runner) == [s EXCEPT !.cwd = runner.dir]

updateShellFromRunner(s, runner) ==
    LET order == RangeOrder(DOMAIN runner.vars)
    IN  [s EXCEPT !.cwd = runner.dir,
                  !.env = [i \in DOMAIN order |->
                             Entry(order[i], runner.vars[order[i]])]]

\* a run that took place
Ran(r) == [parsed |-> TRUE, ran |-> TRUE, runner |-> r, err |-> r.err]

\* execCommon up to and including runner.Run
RunCommand(s, ctx, command) ==
    LET p == Parsed(command)
        ni == newInterp(s)
    IN  IF p.err
          THEN [parsed |-> FALSE, ran |-> FALSE, runner |-> ni.runner,
                err |-> Wrap("could not parse command", SyntaxErr)]
        ELSE IF ni.err # NilErr
          THEN [parsed |-> TRUE, ran |-> FALSE, runner |-> ni.runner,
                err |-> Wrap("could not run command", ni.err)]
        ELSE Ran(Run(p.stmts, ni.runner, ctx, s.blockFuncs))

\* what is remembered of a run
RunOf(rc) ==
    [parsed |-> rc.parsed, ran |-> rc.ran, out |-> rc.runner.out,
     log |-> rc.runner.log, dir |-> rc.runner.dir, vars |-> rc.runner.vars]

\* execCommon after runner.Run: the session afterwards and what the call
\* returns
Finish(s, rc) ==
    [s |-> IF rc.ran THEN updateShellFromRunner(s, rc.runner) ELSE s,
     err |-> rc.err, run |-> RunOf(rc)]

execCommon(s, ctx, command) == Finish(s, RunCommand(s, ctx, command))

\* SetEnv on the list of entries: the first entry with the prefix "key=" is
\* replaced, and the entry is appended if there is none
SetEnv(envList, key, value) ==
    LET keyPrefix == key \o <<"=">>
        hits == {i \in DOMAIN envList : HasPrefix(envList[i], keyPrefix)}
    IN  IF hits # {}
          THEN LET i == CHOOSE k \in hits : \A j \in hits : k <= j
               IN  [envList EXCEPT ![i] = keyPrefix \o value]
          ELSE Append(envList, keyPrefix \o value)

\* the session and the record of the call after execCommon returned res
Done(op, id, args, res) ==
    /\ shells' = [shells EXCEPT ![id] = res.s]
    /\ last' = Called(op, id, args, res.err, <<>>, res.run)

Exec(id, ctx, command) ==
    /\ Done("Exec", id, [ctx |-> ctx, command |-> command],
            execCommon(shells[id], ctx, command))
    /\ UNCHANGED <<sandboxVars, blk, coreUtilsEnv, useGoCoreUtils, concVars>>

ExecStream(id, ctx, command) ==
    /\ Done("ExecStream", id, [ctx |-> ctx, command |-> command],
            execCommon(shells[id], ctx, command))
    /\ UNCHANGED <<sandboxVars, blk, coreUtilsEnv, useGoCoreUtils, concVars>>

GetWorkingDir(id) ==
    /\ last' = Called("GetWorkingDir", id, <<>>, NilErr, shells[id].cwd, NoRun)
    /\ UNCHANGED <<sandboxVars, blk, coreUtilsEnv, useGoCoreUtils, shells, concVars>>

SetWorkingDir(id, dir) ==
    /\ IF Stat(dir).kind = "missing"
         THEN /\ last' = Called("SetWorkingDir", id, dir,
                                Wrap("directory does not exist", [kind |-> "stat"]),
                                <<>>, NoRun)
              /\ UNCHANGED shells
         ELSE /\ last' = Called("SetWorkingDir", id, dir, NilErr, <<>>, NoRun)
              /\ shells' = [shells EXCEPT ![id].cwd = dir]
    /\ UNCHANGED <<sandboxVars, blk, coreUtilsEnv, useGoCoreUtils, concVars>>

GetEnv(id) ==
    /\ last' = Called("GetEnv", id, <<>>, NilErr, shells[id].env, NoRun)
    /\ UNCHANGED <<sandboxVars, blk, coreUtilsEnv, useGoCoreUtils, shells, concVars>>

ShellSetEnv(id, key, value) ==
    /\ shells' = [shells EXCEPT ![id].env = SetEnv(@, key, value)]
    /\ last' = Called("SetEnv", id, [key |-> key, value |-> value], NilErr, <<>>,
                      NoRun)
    /\ UNCHANGED <<sandboxVars, blk, coreUtilsEnv, useGoCoreUtils, concVars>>

SetBlockFuncs(id, blockFuncs) ==
    /\ shells' = [shells EXCEPT ![id].blockFuncs = blockFuncs]
    /\ last' = Called("SetBlockFuncs", id, blockFuncs, NilErr, <<>>, NoRun)
    /\ UNCHANGED <<sandboxVars, blk, coreUtilsEnv, useGoCoreUtils, concVars>>

(***************************************************************************)
(* The sessions, commands and arguments tried.                             *)
(***************************************************************************)
nameA == <<"A">>
nameX == <<"X">>
one == <<"1">>
two == <<"2">>
noSuchDir == <<"/", "n", "o", "s", "u", "c", "h">>

cmdEmpty == <<>>
cmdCdExport == <<"c", "d", " ", "/", "t", "m", "p", " ", "&", "&", " ", "e", "x", "p", "o", "r", "t", " ", "X", "=", "1">>
cmdEchoX == <<"e", "c", "h", "o", " ", "$", "X">>
cmdCurl == <<"c", "u", "r", "l", " ", "x">>
cmdSeq == <<"c", "a", "t", " ", "f", ";", " ", "c", "u", "r", "l", " ", "x", ";", " ", "c", "d", " ", "/", "t", "m", "p">>
cmdGitPush == <<"g", "i", "t", " ", "p", "u", "s", "h", " ", "o", "r", "i", "g", "i", "n">>
cmdShC == <<"s", "h", " ", "-", "c", " ", "'", "c", "u", "r", "l", " ", "x", ";", " ", "l", "s", "'">>
cmdBashFile == <<"b", "a", "s", "h", " ", "/", "t", "m", "p", "/", "s", ".", "s", "h">>
cmdSh == <<"s", "h">>
cmdShDashC == <<"/", "b", "i", "n", "/", "s", "h", " ", "-", "x", " ", "-", "c">>
cmdShNoFile == <<"s", "h", " ", "/", "t", "m", "p", "/", "n", "o", "n", "e", ".", "s", "h">>
cmdRunScript == <<"/", "b", "i", "n", "/", "r", "u", "n", ".", "s", "h", " ", "a">>
cmdCdFalse == <<"c", "d", " ", "/", "t", "m", "p", ";", " ", "f", "a", "l", "s", "e">>
cmdNoSuch == <<"n", "o", "s", "u", "c", "h">>
cmdNested == <<"s", "h", " ", "-", "c", " ", "'", "b", "a", "s", "h", " ", "/", "t", "m", "p", "/", "s", ".", "s", "h", "'">>
cmdShCEmpty == <<"s", "h", " ", "-", "c", " ", "'", "'">>
cmdShCParams == <<"b", "a", "s", "h", " ", "-", "x", " ", "-", "c", " ", "'", "l", "s", "'", " ", "a", " ", "b">>
cmdCdBadQuote == <<"c", "d", " ", "/", "t", "m", "p", ";", " ", "e", "c", "h", "o", " ", "'", "x">>
cmdBadQuote == <<"e", "c", "h", "o", " ", "'", "x">>
Commands == {cmdEmpty, cmdCdExport, cmdEchoX, cmdCurl, cmdSeq, cmdGitPush, cmdShC,
             cmdBashFile, cmdSh, cmdShDashC, cmdShNoFile, cmdRunScript,
             cmdCdFalse, cmdNoSuch, cmdNested, cmdShCEmpty, cmdShCParams,
             cmdCdBadQuote, cmdBadQuote}

\* the calls of Exec and ExecStream tried: every command with a live context,
\* some with a context that is already done
DoneContexts == {"canceled", "deadline"}
ExecCalls ==
    {[ctx |-> "live", command |-> c] : c \in Commands} \cup
    {[ctx |-> x, command |-> c] :
        x \in DoneContexts, c \in {cmdEmpty, cmdCurl, cmdBadQuote}}
ExecStreamCalls ==
    {[ctx |-> "live", command |-> c] : c \in {cmdCdExport, cmdCurl, cmdCdBadQuote}} \cup
    {[ctx |-> "canceled", command |-> cmdCurl]}

EnvLists == {NilEnv, EnvOf(<<Entry(nameA, one), Entry(nameA, two)>>)}
BlockLists == {<<>>, <<ArgumentsBlockFunc(git, <<push>>, <<>>),
                       CommandsBlockFunc(<<wget, curl>>)>>}
OptionsTried ==
    {Options(w, e, b) : w \in {<<>>, tmpDir}, e \in EnvLists, b \in BlockLists}
SetEnvKeys == {nameA, nameX}
SetEnvValues == {one, two}
SetWorkingDirs == {tmpDir, workDir, noSuchDir}

InitShell ==
    /\ goos \in {"openbsd", "linux"}
    /\ env = {}
    /\ SandboxStart
    /\ blk = BlkIdle
    /\ coreUtilsEnv = ""
    /\ useGoCoreUtils = init(goos, coreUtilsEnv)
    /\ \E o \in OptionsTried : shells = <<NewShell(o)>>
    /\ last = NoCall
    /\ envArray = <<>>
    /\ thr = <<>>
    /\ mu = <<>>

NextShell ==
    \E id \in DOMAIN shells :
       \/ \E c \in ExecCalls : Exec(id, c.ctx, c.command)
       \/ \E c \in ExecStreamCalls : ExecStream(id, c.ctx, c.command)
       \/ GetWorkingDir(id)
       \/ \E dir \in SetWorkingDirs : SetWorkingDir(id, dir)
       \/ GetEnv(id)
       \/ \E key \in SetEnvKeys, value \in SetEnvValues : ShellSetEnv(id, key, value)
       \/ \E blockFuncs \in BlockLists : SetBlockFuncs(id, blockFuncs)

SpecShell == InitShell /\ [][NextShell]_vars

(***************************************************************************)
(* Goroutines calling into two sessions.  Every method of Shell begins     *)
(* with s.mu.Lock() and ends, by defer, with s.mu.Unlock(); a call is the  *)
(* steps: wait for the mutex, the body, unlock.  The body of Exec and      *)
(* ExecStream is two steps, the run (which reads the session into a        *)
(* runner) and the update of the session from the runner.                  *)
(*                                                                         *)
(* The env field of a Shell is a Go slice: NewShell stores the slice it is *)
(* given, so two sessions made from one list share its array, and a write  *)
(* to an element of the array shows in both.  envArray names the array of  *)
(* each session: 0 is the array of the list the caller passed to NewShell, *)
(* i an array that only session i points into (os.Environ()'s result, the  *)
(* result of an append that had to grow, the list rebuilt after a run).    *)
(* The caller's list has no spare capacity, so an append never writes into  *)
(* its array.                                                              *)
(***************************************************************************)
Goroutines == {1, 2}
MaxCalls == 3

callerEnv == Environ
ConcOptions == {Options(<<>>, e, <<>>) : e \in {NilEnv, EnvOf(callerEnv)}}
ArrayOf(opts, id) == IF opts.Env.nil THEN id ELSE 0

Args(command, key, value, dir, blockFuncs) ==
    [command |-> command, key |-> key, value |-> value, dir |-> dir,
     blockFuncs |-> blockFuncs]
NoArg == Args(<<>>, <<>>, <<>>, <<>>, <<>>)
NoRc == [parsed |-> FALSE, ran |-> FALSE, runner |-> NewRunner(<<>>, NoVars, <<>>, <<>>),
         err |-> NilErr]
NoShell == [cwd |-> <<>>, env |-> <<>>, blockFuncs |-> <<>>]
Idle(n) == [pc |-> "idle", op |-> "none", id |-> 0, args |-> NoArg, rc |-> NoRc,
            seen |-> NoShell, n |-> n]

\* the calls tried, on either session
CallsTried ==
    {[op |-> "Exec", args |-> Args(cmdCdExport, <<>>, <<>>, <<>>, <<>>)],
     [op |-> "ExecStream", args |-> Args(cmdEchoX, <<>>, <<>>, <<>>, <<>>)],
     [op |-> "GetWorkingDir", args |-> NoArg],
     [op |-> "SetWorkingDir", args |-> Args(<<>>, <<>>, <<>>, tmpDir, <<>>)],
     [op |-> "GetEnv", args |-> NoArg],
     [op |-> "SetEnv", args |-> Args(<<>>, nameA, two, <<>>, <<>>)],
     [op |-> "SetEnv", args |-> Args(<<>>, nameX, one, <<>>, <<>>)],
     [op |-> "SetBlockFuncs",
      args |-> Args(<<>>, <<>>, <<>>, <<>>, <<CommandsBlockFunc(<<wget, curl>>)>>)]}

CallsMade == thr[1].n + thr[2].n

InitConc ==
    /\ goos \in {"openbsd", "linux"}
    /\ env = {}
    /\ SandboxStart
    /\ blk = BlkIdle
    /\ coreUtilsEnv = ""
    /\ useGoCoreUtils = init(goos, coreUtilsEnv)
    /\ \E o1 \in ConcOptions, o2 \in ConcOptions :
          /\ shells = <<NewShell(o1), NewShell(o2)>>
          /\ envArray = <<ArrayOf(o1, 1), ArrayOf(o2, 2)>>
    /\ last = NoCall
    /\ thr = [g \in Goroutines |-> Idle(0)]
    /\ mu = <<0, 0>>

ConcFrame ==
    UNCHANGED <<sandboxVars, blk, coreUtilsEnv, useGoCoreUtils, last, callers, secMu>>

\* a goroutine calls a method of a session
Invoke(g, op, id, args) ==
    /\ thr[g].pc = "idle"
    /\ CallsMade < MaxCalls
    /\ thr' = [thr EXCEPT ![g] = [@ EXCEPT !.pc = "lock", !.op = op, !.id = id,
                                           !.args = args, !.n = @ + 1]]
    /\ UNCHANGED <<shells, envArray, mu>>
    /\ ConcFrame

\* sync.Mutex: Lock returns only while no goroutine holds the mutex
CanLock(id) == mu[id] = 0

\* s.mu.Lock()
Lock(g) ==
    /\ thr[g].pc = "lock"
    /\ CanLock(thr[g].id)
    /\ mu' = [mu EXCEPT ![thr[g].id] = g]
    /\ thr' = [thr EXCEPT ![g].pc = "locked"]
    /\ UNCHANGED <<shells, envArray>>
    /\ ConcFrame

Body(g, op) == thr[g].pc = "locked" /\ thr[g].op = op
Leave(g) == thr' = [thr EXCEPT ![g].pc = "unlock"]

\* Exec, ExecStream: execCommon up to and including runner.Run
ExecRun(g) ==
    /\ thr[g].pc = "locked"
    /\ thr[g].op \in {"Exec", "ExecStream"}
    /\ thr' = [thr EXCEPT ![g].pc = "ran",
                          ![g].rc = RunCommand(shells[thr[g].id], "live",
                                               thr[g].args.command),
                          ![g].seen = shells[thr[g].id]]
    /\ UNCHANGED <<shells, envArray, mu>>
    /\ ConcFrame

\* Exec, ExecStream: updateShellFromRunner, which builds the env list anew
ExecUpdate(g) ==
    /\ thr[g].pc = "ran"
    /\ shells' = [shells EXCEPT ![thr[g].id] = Finish(@, thr[g].rc).s]
    /\ envArray' = IF thr[g].rc.ran THEN [envArray EXCEPT ![thr[g].id] = thr[g].id]
                   ELSE envArray
    /\ thr' = [thr EXCEPT ![g].pc = "unlock", ![g].rc = NoRc, ![g].seen = NoShell]
    /\ UNCHANGED mu
    /\ ConcFrame

GoGetWorkingDir(g) ==
    /\ Body(g, "GetWorkingDir")
    /\ Leave(g)
    /\ UNCHANGED <<shells, envArray, mu>>
    /\ ConcFrame

GoSetWorkingDir(g) ==
    /\ Body(g, "SetWorkingDir")
    /\ shells' = IF Stat(thr[g].args.dir).kind = "missing" THEN shells
                 ELSE [shells EXCEPT ![thr[g].id].cwd = thr[g].args.dir]
    /\ Leave(g)
    /\ UNCHANGED <<envArray, mu>>
    /\ ConcFrame

GoGetEnv(g) ==
    /\ Body(g, "GetEnv")
    /\ Leave(g)
    /\ UNCHANGED <<shells, envArray, mu>>
    /\ ConcFrame

\* the position of the first entry of the list with the prefix, 0 if none
FirstWithPrefix(envList, keyPrefix) ==
    IF \E i \in DOMAIN envList : HasPrefix(envList[i], keyPrefix)
      THEN CHOOSE i \in DOMAIN envList :
             /\ HasPrefix(envList[i], keyPrefix)
             /\ \A j \in 1..(i - 1) : ~HasPrefix(envList[j], keyPrefix)
      ELSE 0

\* s.env[i] = e: the element i of the session's array, seen by every session
\* whose env points into that array
WriteElement(shs, arrays, id, i, e) ==
    [j \in DOMAIN shs |->
       IF arrays[j] = arrays[id] /\ i \in DOMAIN shs[j].env
         THEN [shs[j] EXCEPT !.env[i] = e]
         ELSE shs[j]]

\* SetEnv: the assignment to s.env[i], or the append, which moves the
\* session's list to an array of its own
GoSetEnv(g) ==
    /\ Body(g, "SetEnv")
    /\ LET id == thr[g].id
           keyPrefix == thr[g].args.key \o <<"=">>
           i == FirstWithPrefix(shells[id].env, keyPrefix)
       IN  IF i # 0
             THEN /\ shells' = WriteElement(shells, envArray, id, i,
                                            keyPrefix \o thr[g].args.value)
                  /\ UNCHANGED envArray
             ELSE /\ shells' = [shells EXCEPT ![id].env =
                                  SetEnv(@, thr[g].args.key, thr[g].args.value)]
                  /\ envArray' = [envArray EXCEPT ![id] = id]
    /\ Leave(g)
    /\ UNCHANGED mu
    /\ ConcFrame

GoSetBlockFuncs(g) ==
    /\ Body(g, "SetBlockFuncs")
    /\ shells' = [shells EXCEPT ![thr[g].id].blockFuncs = thr[g].args.blockFuncs]
    /\ Leave(g)
    /\ UNCHANGED <<envArray, mu>>
    /\ ConcFrame

\* the deferred s.mu.Unlock(), and the return
Unlock(g) ==
    /\ thr[g].pc = "unlock"
    /\ mu' = [mu EXCEPT ![thr[g].id] = 0]
    /\ thr' = [thr EXCEPT ![g] = Idle(thr[g].n)]
    /\ UNCHANGED <<shells, envArray>>
    /\ ConcFrame

NextConc ==
    \E g \in Goroutines :
       \/ \E c \in CallsTried, id \in DOMAIN shells : Invoke(g, c.op, id, c.args)
       \/ Lock(g)
       \/ ExecRun(g)
       \/ ExecUpdate(g)
       \/ GoGetWorkingDir(g)
       \/ GoSetWorkingDir(g)
       \/ GoGetEnv(g)
       \/ GoSetEnv(g)
       \/ GoSetBlockFuncs(g)
       \/ Unlock(g)

SpecConc == InitConc /\ [][NextConc]_vars

(***************************************************************************)
(* Goroutines calling Init, Shutdown and IsInitialized.  Each function     *)
(* begins with mu.Lock() and ends, by defer, with mu.Unlock(); Init is the *)
(* steps: the initialized test, setupUnveil, unix.UnveilBlock, and         *)
(* unix.PledgePromises with the assignment to initialized.                 *)
(***************************************************************************)
MaxSecCalls == 3

SecFaults ==
    {{}, {NoUnveil(HomeDir)}, {Dev("unveil lock fails")},
     {Dev("pledge refuses the startup promises")}, {Dev("pledge refuses stdio")}}

NoSecArgs == [dataDir |-> EmptyStr, workingDir |-> EmptyStr]
SecCallsTried ==
    {[op |-> "Init", args |-> [dataDir |-> Rel(<<".crush">>), workingDir |-> HomeDir]],
     [op |-> "Init", args |-> NoSecArgs],
     [op |-> "Shutdown", args |-> NoSecArgs],
     [op |-> "IsInitialized", args |-> NoSecArgs]}

\* a goroutine outside the package: the call it made last, whether the sandbox
\* was initialized when it made the call, and what the call returned
Outside(op, after, err, ret, n) ==
    [pc |-> "idle", op |-> op, args |-> NoSecArgs, after |-> after, err |-> err,
     ret |-> ret, n |-> n]

SecCallsMade == callers[1].n + callers[2].n

InitSec ==
    /\ goos = "openbsd"
    /\ env \in SecFaults
    /\ SandboxState
    /\ blk = BlkIdle
    /\ ShellIdle
    /\ callers = [g \in Goroutines |-> Outside("none", FALSE, "", FALSE, 0)]
    /\ secMu = 0

SecFrame ==
    UNCHANGED <<goos, env, lastOp, lastArgs, lastErr, lastRet, lastCalls, nShutdown,
                blk, coreUtilsEnv, useGoCoreUtils, shells, last, envArray, thr, mu>>

SecInvoke(g, op, args) ==
    /\ callers[g].pc = "idle"
    /\ SecCallsMade < MaxSecCalls
    /\ callers' = [callers EXCEPT ![g] =
                     [pc |-> "lock", op |-> op, args |-> args, after |-> initialized,
                      err |-> "", ret |-> FALSE, n |-> callers[g].n + 1]]
    /\ UNCHANGED <<secMu, initialized, unveiled, sealed, pledged, promises, nInitOk>>
    /\ SecFrame

\* variant: a mutex that never makes a caller wait
SecCanLockAlways == TRUE

\* sync.Mutex: Lock returns only while no goroutine holds the mutex
SecCanLock == secMu = 0

\* mu.Lock()
SecLock(g) ==
    /\ callers[g].pc = "lock"
    /\ SecCanLock
    /\ secMu' = g
    /\ callers' = [callers EXCEPT ![g].pc = callers[g].op]
    /\ UNCHANGED <<initialized, unveiled, sealed, pledged, promises, nInitOk>>
    /\ SecFrame

Fails(g, err) == callers' = [callers EXCEPT ![g].pc = "unlock", ![g].err = err]
GoesOn(g, pc) == callers' = [callers EXCEPT ![g].pc = pc]

\* Init: if initialized { return error }
InitTest(g) ==
    /\ callers[g].pc = "Init"
    /\ IF InitRejects THEN Fails(g, "security already initialized")
       ELSE GoesOn(g, "unveil")
    /\ UNCHANGED <<secMu, initialized, unveiled, sealed, pledged, promises, nInitOk>>
    /\ SecFrame

\* the result of setupUnveil in the caller
AfterUnveil(g, r) ==
    /\ unveiled' = unveiled \cup Grants(r.calls)
    /\ IF r.err # "" THEN Fails(g, "unveil setup failed: " \o r.err)
       ELSE GoesOn(g, "seal")

\* Init: setupUnveil(dataDir, workingDir)
InitUnveil(g) ==
    /\ callers[g].pc = "unveil"
    /\ AfterUnveil(g, setupUnveil(callers[g].args.dataDir, callers[g].args.workingDir))
    /\ UNCHANGED <<secMu, initialized, sealed, pledged, promises, nInitOk>>
    /\ SecFrame

\* Init: unix.UnveilBlock()
InitSeal(g) ==
    /\ callers[g].pc = "seal"
    /\ IF LockFailed(UnveilBlockOk)
         THEN /\ Fails(g, "unveil lock failed")
              /\ UNCHANGED sealed
         ELSE /\ GoesOn(g, "pledge")
              /\ sealed' = UnveilBlockOk
    /\ UNCHANGED <<secMu, initialized, unveiled, pledged, promises, nInitOk>>
    /\ SecFrame

\* Init: unix.PledgePromises(allPromises); initialized = true
InitPledge(g) ==
    /\ callers[g].pc = "pledge"
    /\ IF ~PledgeOk(allPromises)
         THEN /\ Fails(g, "pledge failed")
              /\ UNCHANGED <<initialized, pledged, promises, nInitOk>>
         ELSE /\ Fails(g, "")
              /\ pledged' = TRUE
              /\ promises' = Range(allPromises)
              /\ initialized' = TRUE
              /\ nInitOk' = nInitOk + 1
    /\ UNCHANGED <<secMu, unveiled, sealed>>
    /\ SecFrame

\* the body of Shutdown
ShutdownBody(g) ==
    /\ callers[g].pc = "Shutdown"
    /\ IF ShutdownSkips
         THEN /\ Fails(g, "")
              /\ UNCHANGED <<pledged, promises>>
       ELSE IF PledgeOk(shutdownPromises)
         THEN /\ Fails(g, "")
              /\ pledged' = TRUE
              /\ promises' = Range(shutdownPromises)
         ELSE /\ Fails(g, "pledge shutdown failed")
              /\ UNCHANGED <<pledged, promises>>
    /\ UNCHANGED <<secMu, initialized, unveiled, sealed, nInitOk>>
    /\ SecFrame

\* the body of IsInitialized
IsInitializedBody(g) ==
    /\ callers[g].pc = "IsInitialized"
    /\ callers' = [callers EXCEPT ![g].pc = "unlock", ![g].ret = IsInitializedValue]
    /\ UNCHANGED <<secMu, initialized, unveiled, sealed, pledged, promises, nInitOk>>
    /\ SecFrame

\* the deferred mu.Unlock(), and the return
SecUnlock(g) ==
    /\ callers[g].pc = "unlock"
    /\ secMu' = 0
    /\ callers' = [callers EXCEPT ![g] =
                     Outside(callers[g].op, callers[g].after, callers[g].err,
                             callers[g].ret, callers[g].n)]
    /\ UNCHANGED <<initialized, unveiled, sealed, pledged, promises, nInitOk>>
    /\ SecFrame

NextSec ==
    \E g \in Goroutines :
       \/ \E c \in SecCallsTried : SecInvoke(g, c.op, c.args)
       \/ SecLock(g)
       \/ InitTest(g)
       \/ InitUnveil(g)
       \/ InitSeal(g)
       \/ InitPledge(g)
       \/ ShutdownBody(g)
       \/ IsInitializedBody(g)
       \/ SecUnlock(g)

SpecSec == InitSec /\ [][NextSec]_vars

(***************************************************************************)
(* Properties of the sandbox controller.                                   *)
(***************************************************************************)
OpenBSD == goos = "openbsd"
AlreadyInitialized == "security already initialized"
StartupTokens == {"stdio", "rpath", "wpath", "cpath", "dpath", "flock", "fattr",
                  "proc", "exec", "inet", "dns", "unix", "tty", "getpw"}

UnveilFailed(calls, whats) ==
    \E i \in DOMAIN calls :
        calls[i].fn = "unveil" /\ calls[i].what \in whats /\ ~calls[i].ok
Attempted(calls, fn) == \E i \in DOMAIN calls : calls[i].fn = fn
Failed(calls, fn) == \E i \in DOMAIN calls : calls[i].fn = fn /\ ~calls[i].ok
Requested(calls, tokens) ==
    \E i \in DOMAIN calls :
        calls[i].fn = "pledge" /\ Range(calls[i].promises) = tokens

\* C1: on the enforcing platform an Init call made after an Init call has
\* succeeded returns the already-initialized error, invokes no primitive and
\* leaves the initialized flag, the unveiled paths, the lock and the promise set
\* as they were.
C1_SecondInitRejected ==
    [][(OpenBSD /\ nInitOk > 0 /\ lastOp' = "Init")
         => /\ lastErr' = AlreadyInitialized
            /\ lastCalls' = <<>>
            /\ UNCHANGED <<initialized, unveiled, sealed, pledged, promises>>]_vars

C1_Witness ==
    OpenBSD /\ nInitOk > 0 /\ lastOp = "Init" /\ lastErr = AlreadyInitialized

\* C2 as claimed: after a successful Init followed by a Shutdown the promise set
\* is exactly {stdio} and IsInitialized reports false; IsInitialized reports true
\* only between the successful Init and the first Shutdown.
C2_Original ==
    OpenBSD =>
      /\ (nInitOk > 0 /\ nShutdown > 0)
            => /\ ~IsInitializedValue
               /\ pledged /\ promises = {"stdio"}
      /\ (lastOp = "IsInitialized" /\ lastRet) => (nInitOk > 0 /\ nShutdown = 0)

\* C2 as amended: after a successful Init, a Shutdown that returns nil leaves the
\* promise set exactly {stdio} and one that returns an error leaves the startup
\* set; Shutdown never clears the initialized flag, so IsInitialized reports
\* true from the successful Init on, Shutdown or not.
C2_ShutdownKeepsInitialized ==
    OpenBSD =>
      /\ IsInitializedValue <=> nInitOk > 0
      /\ lastOp = "IsInitialized" => (lastRet <=> nInitOk > 0)
      /\ (nInitOk > 0 /\ lastOp = "Shutdown" /\ lastErr = "")
            => (pledged /\ promises = {"stdio"})
      /\ (nInitOk > 0 /\ lastOp = "Shutdown" /\ lastErr # "")
            => (pledged /\ promises = StartupTokens)

C2_Witness ==
    /\ OpenBSD /\ nInitOk > 0 /\ nShutdown > 0
    /\ lastOp = "IsInitialized" /\ lastRet
    /\ promises = {"stdio"}

\* C3: Shutdown always returns; on a never-initialized sandbox it returns nil,
\* invokes no primitive and changes nothing; a Shutdown made after an earlier
\* Shutdown of the initialized sandbox leaves the promise set as that earlier
\* call left it.
C3_ShutdownIdempotent ==
    [][(OpenBSD /\ lastOp' = "Shutdown")
         => /\ lastErr' \in {"", "pledge shutdown failed"}
            /\ UNCHANGED <<initialized, unveiled, sealed>>
            /\ nInitOk = 0
                  => /\ lastErr' = ""
                     /\ lastCalls' = <<>>
                     /\ UNCHANGED <<pledged, promises>>
            /\ (nInitOk > 0 /\ nShutdown > 0)
                  => UNCHANGED <<pledged, promises>>]_vars

C3_Witness ==
    OpenBSD /\ nInitOk > 0 /\ nShutdown > 1 /\ lastOp = "Shutdown" /\ lastErr = ""

\* C4: the only promise sets ever requested are the 14-token startup set and
\* {stdio}; the first set applied is the startup set; the startup set is never
\* requested once {stdio} is in force; the promise set in force never grows.
C4_PromisesMonotone ==
    [][OpenBSD
         => /\ Cardinality(StartupTokens) = 14
            /\ \A i \in DOMAIN lastCalls' :
                  lastCalls'[i].fn = "pledge"
                    => Range(lastCalls'[i].promises) \in {StartupTokens, {"stdio"}}
            /\ (pledged /\ promises = {"stdio"})
                  => ~Requested(lastCalls', StartupTokens)
            /\ pledged => (pledged' /\ promises' \subseteq promises)
            /\ (~pledged /\ pledged') => promises' = StartupTokens]_vars

C4_Witness ==
    OpenBSD /\ pledged /\ promises = {"stdio"} /\ lastOp = "Init"

\* C5 as claimed: every Init that returned nil was given a data directory and a
\* working directory and has unveiled the first with rwc and the second with
\* rwcx.
C5_Original ==
    (OpenBSD /\ lastOp = "Init" /\ lastErr = "")
      => /\ lastArgs.dataDir # EmptyStr
         /\ lastArgs.workingDir # EmptyStr
         /\ [path |-> Abs(lastArgs.dataDir).path, perms |-> {"r", "w", "c"}]
               \in unveiled
         /\ [path |-> Abs(lastArgs.workingDir).path, perms |-> {"r", "w", "c", "x"}]
               \in unveiled

InitRan == OpenBSD /\ lastOp = "Init" /\ lastErr # AlreadyInitialized
Unresolvable(dir) == dir # EmptyStr /\ ~dir.abs /\ GetwdFails
MandatoryStopped ==
    \/ UnveilFailed(lastCalls, {"data", "working"})
    \/ Unresolvable(lastArgs.dataDir)
    \/ Unresolvable(lastArgs.workingDir)

\* C6: an Init call that got past the already-initialized test returns an
\* error, with the sandbox not initialized, when the unveil of the data or of
\* the working directory, the lock or the pledge failed; it returns an error
\* for no other reason than these and an unresolvable directory, so a failed
\* unveil of a system or best-effort path never stops it from locking and
\* pledging.
C6_FatalAndBestEffort ==
    InitRan =>
      /\ (\/ UnveilFailed(lastCalls, {"data", "working"})
          \/ Failed(lastCalls, "unveilblock")
          \/ Failed(lastCalls, "pledge"))
            => (lastErr # "" /\ ~initialized /\ ~IsInitializedValue)
      /\ ~MandatoryStopped
            => /\ Attempted(lastCalls, "unveilblock")
               /\ ~Failed(lastCalls, "unveilblock") => Attempted(lastCalls, "pledge")
      /\ lastErr = ""
            <=> ~(\/ MandatoryStopped
                  \/ Failed(lastCalls, "unveilblock")
                  \/ Failed(lastCalls, "pledge"))
      /\ lastErr = "" => initialized

C6_Witness ==
    /\ InitRan /\ lastErr = "" /\ initialized
    /\ UnveilFailed(lastCalls, {"system", "crush", "xdg", "gitconfig", "gopath",
                                "gocache", "tmp"})

\* C7: on a platform served by the stub every Init and every Shutdown returns
\* nil and every IsInitialized returns false, after any number of Init calls.
C7_StubNoOp ==
    ~OpenBSD =>
      /\ lastOp \in {"Init", "Shutdown"} => lastErr = ""
      /\ lastOp = "IsInitialized" => ~lastRet
      /\ ~initialized /\ lastCalls = <<>>

C7_Witness ==
    ~OpenBSD /\ nInitOk > 1 /\ lastOp = "IsInitialized" /\ ~lastRet

\* C8 as claimed: no Init ends with the sandbox initialized while
\* ~/.ssh/config is readable by the process.
C8_Original == (OpenBSD /\ initialized) => ~Readable(SshConfig)

(***************************************************************************)
(* Properties of the block predicates.                                     *)
(***************************************************************************)
\* C9: the exact-name blocker returns true exactly when the command line is
\* not empty and its first token is one of the names; with {curl, wget} it
\* blocks [curl, http://x] and not [cat, file].
C9_CommandsBlocker ==
    (blk.kind = "commands" /\ blk.done)
      => /\ blk.result
              <=> /\ blk.parts # <<>>
                  /\ \E i \in DOMAIN blk.cmds : blk.cmds[i] = Head(blk.parts)
         /\ (blk.cmds = <<curl, wget>> /\ blk.parts = <<curl, httpx>>) => blk.result
         /\ (blk.cmds = <<curl, wget>> /\ blk.parts = <<cat, file>>) => ~blk.result

C9_Witness ==
    /\ blk.kind = "commands" /\ blk.done
    /\ blk.cmds = <<curl, wget>> /\ blk.parts = <<curl, httpx>> /\ blk.result

BeginsWithDash(t) == Len(t) > 0 /\ t[1] = "-"
FlagIdentity(t) ==
    LET eqs == {i \in DOMAIN t : t[i] = "="}
    IN  IF eqs = {} THEN t
        ELSE SubSeq(t, 1, (CHOOSE i \in eqs : \A j \in eqs : i <= j) - 1)
NonFlagTokens(rest) == SelectSeq(rest, LAMBDA t : ~BeginsWithDash(t))
FlagIdentities(rest) ==
    {FlagIdentity(rest[i]) : i \in {j \in DOMAIN rest : BeginsWithDash(rest[j])}}

ClaimedArgumentsBlocker(cmd, args, flags, parts) ==
    /\ parts # <<>>
    /\ Head(parts) = cmd
    /\ Len(NonFlagTokens(Tail(parts))) >= Len(args)
    /\ SubSeq(NonFlagTokens(Tail(parts)), 1, Len(args)) = args
    /\ \A i \in DOMAIN flags : flags[i] \in FlagIdentities(Tail(parts))

\* C10 as claimed: the subcommand blocker returns true exactly when the first
\* token is cmd, the first N tokens after it that do not begin with '-' are
\* args, and every required flag is the identity (the part before any '=') of
\* some token after cmd that begins with '-'.
C10_Original ==
    (blk.kind = "arguments" /\ blk.done)
      => (blk.result
            <=> ClaimedArgumentsBlocker(blk.cmd, blk.args, blk.flags, blk.parts))

\* the positions of the calls to one primitive in the trace of a call
CallsTo(calls, fn) == {i \in DOMAIN calls : calls[i].fn = fn}

\* C19: within every Init that runs, the calls to the primitives are ordered:
\* every unveil comes before the lock of the unveil list and the lock before the
\* pledge, so no unveil is issued after the lock; the lock is attempted only if
\* no mandatory unveil failed, the pledge only if the lock succeeded, and the
\* initialized flag is set only after the pledge succeeded.  Shutdown and
\* IsInitialized issue no unveil and no lock.
C19_PrimitiveOrder ==
    OpenBSD =>
      /\ InitRan =>
           /\ \A i \in CallsTo(lastCalls, "unveil") :
                 \A j \in CallsTo(lastCalls, "unveilblock") \cup
                          CallsTo(lastCalls, "pledge") : i < j
           /\ \A i \in CallsTo(lastCalls, "unveilblock") :
                 \A j \in CallsTo(lastCalls, "pledge") : i < j
           /\ Cardinality(CallsTo(lastCalls, "unveilblock")) <= 1
           /\ Cardinality(CallsTo(lastCalls, "pledge")) <= 1
           /\ Attempted(lastCalls, "unveilblock")
                 => /\ ~UnveilFailed(lastCalls, {"data", "working"})
                    /\ ~Unresolvable(lastArgs.dataDir)
                    /\ ~Unresolvable(lastArgs.workingDir)
           /\ Attempted(lastCalls, "pledge")
                 => /\ Attempted(lastCalls, "unveilblock")
                    /\ ~Failed(lastCalls, "unveilblock")
           /\ lastErr = ""
                 <=> (Attempted(lastCalls, "pledge") /\ ~Failed(lastCalls, "pledge"))
           /\ lastErr = "" => initialized
      /\ lastOp \in {"Shutdown", "IsInitialized"}
           => (CallsTo(lastCalls, "unveil") = {} /\
               CallsTo(lastCalls, "unveilblock") = {})
      /\ initialized => (sealed /\ pledged /\ nInitOk > 0)
      /\ nInitOk = 0 => ~initialized

C19_Witness ==
    /\ InitRan /\ lastErr = "" /\ initialized
    /\ Len(lastCalls) > 2
    /\ lastCalls[Len(lastCalls)].fn = "pledge"
    /\ lastCalls[Len(lastCalls) - 1].fn = "unveilblock"
    /\ lastCalls[Len(lastCalls) - 2].fn = "unveil"

\* C20: whenever the initialized flag is set the unveil list is locked, and no
\* later call changes the list or the lock; the list and the lock change only
\* in an Init call that starts with the flag clear.
C20_SealedForGood ==
    [][OpenBSD =>
         /\ initialized' => sealed'
         /\ initialized => UNCHANGED <<unveiled, sealed>>
         /\ (unveiled' # unveiled \/ sealed' # sealed)
               => (lastOp' = "Init" /\ ~initialized)]_vars

C20_Witness ==
    /\ OpenBSD /\ initialized /\ sealed /\ unveiled # {}
    /\ nShutdown > 0 /\ lastOp = "Init" /\ lastErr = AlreadyInitialized

(***************************************************************************)
(* Properties of the start-up of the shell package and of script detection.*)
(***************************************************************************)
TrueWords == {"1", "t", "T", "TRUE", "true", "True"}
FalseWords == {"0", "f", "F", "FALSE", "false", "False"}

\* C13 as claimed: a value of CRUSH_CORE_UTILS that parses as a boolean decides
\* the mode on every platform; otherwise the mode is enabled only where native
\* children do not inherit the filesystem restriction (OpenBSD) and disabled on
\* every other platform.
C13_Original ==
    (blk.kind = "init" /\ blk.done)
      => /\ coreUtilsEnv \in TrueWords => useGoCoreUtils
         /\ coreUtilsEnv \in FalseWords => ~useGoCoreUtils
         /\ coreUtilsEnv \notin TrueWords \cup FalseWords
               => (useGoCoreUtils <=> goos = "openbsd")

\* C13 as amended: a value of CRUSH_CORE_UTILS that parses as a boolean decides
\* the mode on every platform; otherwise the mode is enabled on OpenBSD and on
\* Windows and disabled on every other platform.
C13_DefaultOnOpenBSDAndWindows ==
    (blk.kind = "init" /\ blk.done)
      => /\ coreUtilsEnv \in TrueWords => useGoCoreUtils
         /\ coreUtilsEnv \in FalseWords => ~useGoCoreUtils
         /\ coreUtilsEnv \notin TrueWords \cup FalseWords
               => (useGoCoreUtils <=> goos \in {"openbsd", "windows"})

C13_Witness ==
    /\ blk.kind = "init" /\ blk.done
    /\ goos = "windows" /\ coreUtilsEnv = "yes" /\ useGoCoreUtils

\* the interpreters the claim counts as a reference to a POSIX shell
ShellInterpreters == {binSh, binBash, usrBinEnvSh, usrBinEnvBash}

\* C14 as claimed: a file is classified as a shell script exactly when its first
\* 128 bytes start with "#!" followed by a POSIX shell interpreter path or an
\* env sh / env bash invocation; "#!/bin/sh\n" and "#!/usr/bin/env bash\n" are
\* shell scripts, "#!/usr/bin/python3\n" is not, and an unreadable or empty
\* file is not.
C14_Original ==
    (blk.kind = "isShellScript" /\ blk.done)
      => /\ blk.result
            <=> /\ blk.file.kind = "file"
                /\ blk.opening = shebang
                /\ blk.interpreter \in ShellInterpreters
                /\ Len(shebang) + blk.blanks + Len(blk.interpreter) <= HeaderBytes
         /\ blk.file \in {NoFile, DirFile, RegFile(<<>>)} => ~blk.result

(***************************************************************************)
(* Properties of the shell session.                                        *)
(***************************************************************************)
ExecCall == last.op \in {"Exec", "ExecStream"}
Log == last.run.log
\* the commands of the log that reached a spawn point
SpawnPoints == {i \in DOMAIN Log : Log[i].outcome # "builtin"}
\* the tokens written one after the other with one blank between two of them
SpaceJoined(args) ==
    [i \in 1..(Len(args) - 1) |-> args[i] \o <<" ">>] \o <<args[Len(args)]>>
RECURSIVE Flatten(_)
Flatten(seqs) == IF seqs = <<>> THEN <<>> ELSE Head(seqs) \o Flatten(Tail(seqs))
SessionEnv(id) == {shells[id].env[i] : i \in DOMAIN shells[id].env}

\* C11: at a spawn point with a non-empty command line the command is blocked
\* exactly when some predicate of the session's block list is true of it; a
\* blocked command goes to no later interceptor and not to the native spawn;
\* the invocation returns an error whose text ends with the command's tokens
\* joined by single blanks; and no command after the blocked one is started.
C11_BlockedExactly ==
    (ExecCall /\ last.run.ran) =>
      \A i \in SpawnPoints :
        /\ Log[i].args # <<>>
        /\ Log[i].outcome = "blocked"
             <=> \E k \in DOMAIN shells[last.id].blockFuncs :
                    BlockFunc(shells[last.id].blockFuncs[k], Log[i].args)
        /\ Log[i].outcome = "blocked"
             => /\ Log[i].consulted = <<"blockHandler">>
                /\ i = Len(Log)
                /\ last.err # NilErr
                /\ last.err.kind = "blocked"
                /\ last.err.cmdline = Flatten(SpaceJoined(Log[i].args))

C11_Witness ==
    /\ ExecCall /\ last.args.command = cmdSeq
    /\ Len(shells[last.id].blockFuncs) = 2
    /\ ~BlockFunc(shells[last.id].blockFuncs[1], <<curl, <<"x">>>>)
    /\ Len(Log) = 2
    /\ Log[1].outcome \in {"native", "coreutils"}
    /\ Log[2].args = <<curl, <<"x">>>> /\ Log[2].outcome = "blocked"
    /\ last.err.kind = "blocked" /\ last.err.cmdline = <<"c", "u", "r", "l", " ", "x">>
    /\ shells[last.id].cwd = workDir

\* the last component of a path
LastComponent(path) ==
    LET cut == {i \in DOMAIN path : path[i] = "/"}
    IN  IF cut = {} THEN path
        ELSE SubSeq(path, (CHOOSE i \in cut : \A j \in cut : j <= i) + 1, Len(path))

LastEnv == SessionEnv(last.id)
\* the session as the runner left it
AfterRun ==
    (ExecCall /\ last.run.parsed)
      => /\ last.run.ran
         /\ shells[last.id].cwd = last.run.dir
         /\ LastEnv = {Entry(n, last.run.vars[n]) : n \in DOMAIN last.run.vars}
         /\ Len(shells[last.id].env) = Cardinality(DOMAIN last.run.vars)
AfterCdExport ==
    /\ (ExecCall /\ last.args = [ctx |-> "live", command |-> cmdCdExport])
          => /\ last.err = NilErr
             /\ shells[last.id].cwd = tmpDir
             /\ Entry(nameX, one) \in LastEnv
    /\ last.op = "GetWorkingDir" => last.ret = shells[last.id].cwd

EntriesOf(id, name) ==
    {i \in DOMAIN shells[id].env : EntryName(shells[id].env[i]) = name}

\* C16 as claimed: after SetEnv(K, V) the environment holds the entry "K=V" and
\* no other entry for K, and at every moment, from the construction of the
\* session on, it holds at most one entry for a name.
C16_Original ==
    /\ \A id \in DOMAIN shells :
         \A i, j \in DOMAIN shells[id].env :
            i # j => EntryName(shells[id].env[i]) # EntryName(shells[id].env[j])
    /\ last.op = "SetEnv"
         => /\ Entry(last.args.key, last.args.value) \in SessionEnv(last.id)
            /\ Cardinality(EntriesOf(last.id, last.args.key)) = 1

InSection(g) == thr[g].pc \in {"locked", "ran", "unlock"}
Holders(id) == {g \in Goroutines : InSection(g) /\ thr[g].id = id}
MutualExclusion == \A id \in DOMAIN shells : Cardinality(Holders(id)) <= 1
\* between the run's reading of the session and its writing back, the session
\* is as the run read it
RunSeesLastCompleted ==
    \A g \in Goroutines : thr[g].pc = "ran" => shells[thr[g].id] = thr[g].seen
\* a caller waits only while a goroutine is inside an operation on the same
\* session
WaitsOnlyForOwnSession ==
    \A g \in Goroutines :
       thr[g].pc = "lock" => (CanLock(thr[g].id) <=> Holders(thr[g].id) = {})
\* a session changes only in a step of a goroutine that is inside an
\* operation on that session
ChangedByOwnOperation ==
    \A j \in DOMAIN shells :
       shells'[j] # shells[j] =>
          \E g \in Holders(j) : thr'[g] # thr[g]

\* C17: calls on one session are mutually exclusive (at most one inside its
\* critical section, a run sees the session as the last completed operation
\* left it until it has written back), and operations on two different
\* sessions neither block each other nor change each other's cwd, env or
\* block list.
C17_Original ==
    [][/\ MutualExclusion'
       /\ RunSeesLastCompleted'
       /\ WaitsOnlyForOwnSession'
       /\ ChangedByOwnOperation]_vars

(***************************************************************************)
(* Failures of Init and Shutdown.                                          *)
(***************************************************************************)
\* the last call was an Init that failed in the unveil of the data or working
\* directory, in the lock of the unveil list or in pledge
SetupFailed ==
    /\ OpenBSD
    /\ lastOp = "Init"
    /\ \/ UnveilFailed(lastCalls, {"data", "working"})
       \/ Failed(lastCalls, "unveilblock")
       \/ Failed(lastCalls, "pledge")

\* C21: an Init that fails in a mandatory unveil, in the lock or in pledge
\* leaves the unveiled paths, the lock and the promise set as they were before
\* the call, so that no path is unveiled and the list is not locked while the
\* sandbox is not initialized.
C21_Original ==
    [][SetupFailed' =>
          /\ unveiled' = unveiled
          /\ sealed' = sealed
          /\ promises' = promises
          /\ (~initialized' => unveiled' = {} /\ ~sealed')]_vars

\* C22: Shutdown returns nil in every state: with the sandbox never
\* initialized, with it initialized, and when the pledge call of Shutdown
\* itself fails.
C22_Original == lastOp = "Shutdown" => lastErr = ""

(***************************************************************************)
(* Properties of concurrent callers of package security.                   *)
(***************************************************************************)
InsideSec(g) == callers[g].pc \notin {"idle", "lock"}
ReturnedFrom(g, op) == callers[g].pc = "idle" /\ callers[g].op = op

\* C23: with concurrent callers of Init, Shutdown and IsInitialized at most
\* one goroutine is between mu.Lock() and mu.Unlock(), so the steps of two
\* Init calls never interleave; at most one Init call returns nil; an Init
\* call made once the sandbox is initialized returns the already-initialized
\* error; and IsInitialized returns true only with the unveil list locked and
\* the startup pledge made.
C23_OneLock ==
    /\ Cardinality({g \in Goroutines : InsideSec(g)}) <= 1
    /\ nInitOk <= 1
    /\ \A g \in Goroutines :
          ReturnedFrom(g, "Init") /\ callers[g].after =>
             callers[g].err = AlreadyInitialized
    /\ \A g \in Goroutines :
          ReturnedFrom(g, "IsInitialized") /\ callers[g].ret => sealed /\ pledged
    /\ initialized => sealed /\ pledged

\* an Init call waits for the mutex while another is past its unveil calls
C23_Witness ==
    \E g, h \in Goroutines :
       /\ callers[g].op = "Init" /\ callers[g].pc = "lock"
       /\ callers[h].op = "Init" /\ callers[h].pc \in {"seal", "pledge"}
       /\ unveiled # {}

(***************************************************************************)
(* The order of the handlers.                                              *)
(***************************************************************************)
ChainOrder ==
    <<"blockHandler", "shHandler", "scriptExecutionHandler", "coreutils.ExecHandler">>
Chain == IF useGoCoreUtils THEN ChainOrder ELSE <<"blockHandler">>
Decider(e) == e.consulted[Len(e.consulted)]
BlockedBySession(args) ==
    \E k \in DOMAIN shells[last.id].blockFuncs :
       BlockFunc(shells[last.id].blockFuncs[k], args)

\* C24: every spawned command, those of scripts run in-process included, goes
\* through the handlers in the order block, sh, script execution, coreutils
\* and then to the native spawn; the handlers before the one that decides
\* passed the command on and none after it is called; the block handler is
\* the first; with in-process execution off the chain is the block handler
\* and the native spawn.
C24_ChainOrder ==
    (ExecCall /\ last.run.ran) =>
      \A i \in SpawnPoints :
        /\ Len(Log[i].consulted) >= 1
        /\ Log[i].consulted = SubSeq(Chain, 1, Len(Log[i].consulted))
        /\ Log[i].outcome = "native" <=>
             /\ Log[i].consulted = Chain
             /\ ~BlockedBySession(Log[i].args)
             /\ useGoCoreUtils => Log[i].args[1] \notin CoreUtils
        /\ Log[i].outcome = "blocked" => Decider(Log[i]) = "blockHandler"
        /\ Log[i].outcome \in {"inprocess", "error"}
             => Decider(Log[i]) \in {"shHandler", "scriptExecutionHandler"}
        /\ Log[i].outcome = "coreutils" => Decider(Log[i]) = "coreutils.ExecHandler"
        /\ Len(Log[i].consulted) >= 2 => ~BlockedBySession(Log[i].args)
        /\ Len(Log[i].consulted) >= 3 => LastComponent(Log[i].args[1]) \notin {sh, bash}
        /\ Log[i].outcome \in {"native", "blocked", "inprocess", "error", "coreutils"}

\* a script run by sh -c runs a script file with bash, whose first command goes
\* through all four handlers to the native spawn and whose second is a coreutil
C24_Witness ==
    /\ ExecCall /\ useGoCoreUtils /\ last.args.command = cmdNested
    /\ Len(Log) = 4
    /\ Log[1].outcome = "inprocess" /\ Log[1].consulted = SubSeq(ChainOrder, 1, 2)
    /\ Log[2].outcome = "inprocess" /\ Log[2].script = Stat(scriptFile).content
    /\ Log[3].outcome = "native" /\ Log[3].consulted = ChainOrder
    /\ Log[4].outcome = "coreutils"

(***************************************************************************)
(* The arguments of sh and bash.                                           *)
(***************************************************************************)
\* the reading of the tokens from index i on that C25 describes
RECURSIVE ClaimedScan(_, _)
ClaimedScan(args, i) ==
    IF i > Len(args) THEN [kind |-> "none", text |-> <<>>, params |-> <<>>]
    ELSE IF args[i] = dashC
      THEN IF i < Len(args)
             THEN [kind |-> "text", text |-> args[i + 1],
                   params |-> SubSeq(args, i + 2, Len(args))]
             ELSE [kind |-> "missing", text |-> <<>>, params |-> <<>>]
    ELSE IF args[i] = <<>> \/ args[i][1] # "-"
      THEN [kind |-> "file", text |-> args[i], params |-> SubSeq(args, i, Len(args))]
    ELSE ClaimedScan(args, i + 1)

\* what became of the command e of the log, the last one if it failed, agrees
\* with the reading c of its arguments
AsScanned(e, c, isLast) ==
    /\ c.kind = "text"
         => e.outcome = "inprocess" /\ e.script = c.text /\ e.params = c.params
    /\ c.kind = "missing"
         => e.outcome = "error" /\ isLast
            /\ last.err = DashCErr(LastComponent(e.args[1]))
    /\ c.kind = "file" /\ Stat(c.text).kind = "file"
         => e.outcome = "inprocess" /\ e.script = Stat(c.text).content
            /\ e.params = c.params
    /\ c.kind = "file" /\ Stat(c.text).kind # "file"
         => e.outcome = "error" /\ isLast /\ last.err = ReadFileErr(c.text)
    /\ c.kind = "none"
         => e.outcome = "error" /\ isLast
            /\ last.err = InteractiveErr(LastComponent(e.args[1]))

\* C25: the sh handler reads the tokens after the shell name from left to
\* right: the token after the first "-c" is the script text, whatever it is,
\* the empty string included, and the tokens after it are the parameters; "-c"
\* as the last token is an error; otherwise the first token not beginning with
\* "-" is the script file, and it and the tokens after it are the parameters;
\* with neither, the error is that interactive mode is not supported.
C25_Original ==
    (ExecCall /\ last.run.ran) =>
      \A i \in SpawnPoints :
        Decider(Log[i]) = "shHandler"
          => AsScanned(Log[i], ClaimedScan(Log[i].args, 2), i = Len(Log))

(***************************************************************************)
(* Commands that are not valid shell syntax.                               *)
(***************************************************************************)
\* the commands tried that end inside a quoted string
Malformed == {cmdBadQuote, cmdCdBadQuote}
ParseError == Wrap("could not parse command", SyntaxErr)

\* C26: Exec and ExecStream with a command that is not valid shell syntax
\* return the parse error with no command of the string run or handed to a
\* handler, and leave the sessions (cwd, env, block list) as they were.
C26_ParseErrorRunsNothing ==
    [][(ExecCall' /\ last'.args.command \in Malformed) =>
          /\ last'.err = ParseError
          /\ ~last'.run.ran
          /\ last'.run.log = <<>>
          /\ last'.run.out = <<>>
          /\ shells' = shells]_vars

\* the malformed command with a valid first part, on a session not in /tmp
\* whose environment was set before, with a context that is live
C26_Witness ==
    /\ last.op = "ExecStream"
    /\ last.args = [ctx |-> "live", command |-> cmdCdBadQuote]
    /\ last.err = ParseError
    /\ shells[last.id].cwd = workDir
    /\ Entry(nameX, two) \in SessionEnv(last.id)

====
